---- MODULE Spec2Model ----
(***************************************************************************)
(* Verification model of the SLA island sampling engine                    *)
(* (src/libslic3r/SLA/SupportIslands/UniformSupportIsland.cpp).            *)
(*                                                                         *)
(* Coordinates (coord_t) are integers.  Skeleton edge lengths are doubles  *)
(* in the program; here a length is a whole number of HALF units (len2),   *)
(* so that static_cast<coord_t>(length) is a real truncation.  A ratio on  *)
(* an edge is the exact fraction num/den.                                  *)
(***************************************************************************)
EXTENDS Integers, Sequences, FiniteSets, TLC

VARIABLES
    island,          \* input island: contour, holes and (when not tiny) its skeleton path
    config,          \* SampleConfig of the invocation
    pc,              \* position inside uniform_support_island / align_samples
    supports,        \* SupportIslandPoints being built / returned
    branch,          \* which dispatch branch produced the result
    sampled,         \* the support points as they left thin/thick sampling
    count_iteration, \* local copy of config.count_iteration (size_t)
    max_move,        \* align_samples: max_move of the last sweep
    sweeps,          \* number of align_once calls executed so far
    first_small,     \* number of the first sweep with max_move < minimal_move (0: none)
    prev_position,   \* align_once: positions before the sweep (Points points)
    dup_fixed,       \* indices moved by move_duplicit_positions in the current sweep
    address,         \* memory address rank of each skeleton neighbor in this invocation
    first_output,    \* result of the earlier invocation on the same island and config
    island_parts,    \* separate_thin_thick: IslandParts being built and merged
    item,            \* separate_thin_thick: ProcessItem of the node being processed
    next_item,       \* separate_thin_thick: ProcessItem prepared for the next node
    neighbor_index,  \* separate_thin_thick: position of the for loop in item.node->neighbors
    process_items,   \* separate_thin_thick: ProcessItems process, the waiting items
    part_lengths,    \* merge_short_parts: longest distance of every island part
    observed,        \* what the last step did: calls made, values before and after
    in_lines,        \* load_exported_data: lines of the file not read yet
    objects_to_print \* load_exported_data: objects read so far

\* state of the thin/thick segmentation and of the reader of exported data
SegVars == <<island_parts, item, next_item, neighbor_index, process_items, part_lengths,
            observed>>
LoadVars == <<in_lines, objects_to_print>>

vars == <<island, config, pc, supports, branch, sampled, count_iteration,
          max_move, sweeps, first_small, prev_position, dup_fixed, address, first_output,
          SegVars, LoadVars>>

\* neither the segmentation nor the reader is running
SegIdle ==
    /\ island_parts = <<>> /\ item = <<>> /\ next_item = <<>> /\ neighbor_index = 0
    /\ process_items = <<>> /\ part_lengths = <<>> /\ observed = <<>>
LoadIdle == in_lines = <<>> /\ objects_to_print = <<>>

-----------------------------------------------------------------------------
(* Arithmetic helpers *)

Min(a, b) == IF a < b THEN a ELSE b
Max(a, b) == IF a > b THEN a ELSE b
Abs(a) == IF a < 0 THEN -a ELSE a

\* C++ integer division truncates toward zero
TruncDiv(a, b) == IF a >= 0 THEN a \div b ELSE -((-a) \div b)

\* size_t arithmetic wraps around: 0 - 1 is the largest value.  The largest
\* value of the model is the largest integer of the model checker.
SizeTMax == 2147483647
SizeTDec(n) == IF n = 0 THEN SizeTMax ELSE n - 1

RECURSIVE SumSeq(_)
SumSeq(s) == IF s = <<>> THEN 0 ELSE Head(s) + SumSeq(Tail(s))

RECURSIVE MaxSeq(_)
MaxSeq(s) == IF Len(s) = 1 THEN s[1] ELSE Max(Head(s), MaxSeq(Tail(s)))

Reverse(s) == [i \in 1..Len(s) |-> s[Len(s) + 1 - i]]

-----------------------------------------------------------------------------
(* Bounds of the model *)

MaxSweeps == 3      \* alignment sweeps explored before the model stops counting
MaxCountIteration == 4

-----------------------------------------------------------------------------
(* get_center: bounding box test of the simplified contour *)

\* one coordinate of the loop body: returns <<min, max, fits>>
GetCenterAxis(mn, mx, v, max_radius) ==
    IF mn > v THEN <<v, mx, ~(mx - v > max_radius)>>
    ELSE IF mx < v THEN <<mn, v, ~(v - mn > max_radius)>>
    ELSE <<mn, mx, TRUE>>

\* a centre computed as the half of the extent, without the offset of min
BBoxCenterNoOffset(mn, mx) ==
    <<TruncDiv(mx[1], 2) - TruncDiv(mn[1], 2), TruncDiv(mx[2], 2) - TruncDiv(mn[2], 2)>>

\* output_center = min/2 + max/2 (each half truncated toward zero)
BBoxCenter(mn, mx) ==
    <<TruncDiv(mn[1], 2) + TruncDiv(mx[1], 2), TruncDiv(mn[2], 2) + TruncDiv(mx[2], 2)>>

RECURSIVE GetCenterLoop(_, _, _, _, _)
GetCenterLoop(points, i, mn, mx, max_radius) ==
    IF i > Len(points)
    THEN [ok |-> TRUE, center |-> BBoxCenter(mn, mx)]
    ELSE LET ax == GetCenterAxis(mn[1], mx[1], points[i][1], max_radius)
             ay == GetCenterAxis(mn[2], mx[2], points[i][2], max_radius)
         IN  IF ~ax[3] THEN [ok |-> FALSE, center |-> <<0, 0>>]
             ELSE IF ~ay[3] THEN [ok |-> FALSE, center |-> <<0, 0>>]
             ELSE GetCenterLoop(points, i + 1, <<ax[1], ay[1]>>, <<ax[2], ay[2]>>, max_radius)

get_center(points, max_radius) ==
    IF Len(points) <= 2 THEN [ok |-> FALSE, center |-> <<0, 0>>]
    ELSE GetCenterLoop(points, 2, points[1], points[1], max_radius)

\* bounding box of a point list (for stating the claims)
BBoxMin(points, k) == CHOOSE m \in {points[i][k] : i \in 1..Len(points)} :
                          \A i \in 1..Len(points) : m <= points[i][k]
BBoxMax(points, k) == CHOOSE m \in {points[i][k] : i \in 1..Len(points)} :
                          \A i \in 1..Len(points) : m >= points[i][k]

-----------------------------------------------------------------------------
(* ExPolygon::contains (border counts as inside) *)

NextIdx(poly, i) == IF i = Len(poly) THEN 1 ELSE i + 1

OnSegment(p, a, b) ==
    /\ (b[1] - a[1]) * (p[2] - a[2]) = (b[2] - a[2]) * (p[1] - a[1])
    /\ Min(a[1], b[1]) <= p[1] /\ p[1] <= Max(a[1], b[1])
    /\ Min(a[2], b[2]) <= p[2] /\ p[2] <= Max(a[2], b[2])

OnBorder(poly, p) == \E i \in 1..Len(poly) : OnSegment(p, poly[i], poly[NextIdx(poly, i)])

\* the horizontal ray from p to +x crosses the edge a-b
RayCrosses(p, a, b) ==
    /\ (a[2] > p[2]) # (b[2] > p[2])
    /\ IF b[2] > a[2]
       THEN (p[1] - a[1]) * (b[2] - a[2]) < (p[2] - a[2]) * (b[1] - a[1])
       ELSE (p[1] - a[1]) * (b[2] - a[2]) > (p[2] - a[2]) * (b[1] - a[1])

StrictlyInside(poly, p) ==
    /\ ~OnBorder(poly, p)
    /\ Cardinality({i \in 1..Len(poly) : RayCrosses(p, poly[i], poly[NextIdx(poly, i)])}) % 2 = 1

PolygonContains(poly, p) == OnBorder(poly, p) \/ StrictlyInside(poly, p)

Contains(isl, p) ==
    /\ PolygonContains(isl.contour, p)
    /\ \A h \in 1..Len(isl.holes) : ~StrictlyInside(isl.holes[h], p)

-----------------------------------------------------------------------------
(* Skeleton path (VoronoiGraph::ExPath) of a strip island.                   *)
(* path.len2[k] : length of the k-th edge in half units                      *)
(* path.w[k]    : island width at the k-th node (path.w has one more entry)  *)
(* The path runs along the axis y = 0 starting at x = 0.                     *)

ReversePath(path) == [len2 |-> Reverse(path.len2), w |-> Reverse(path.w)]

\* VoronoiGraph::Path::length, in half units
PathLength2(path) == SumSeq(path.len2)

\* Neighbor::max_width / min_width of the k-th edge of the path
max_width(path, k) == Max(path.w[k], path.w[k + 1])
min_width(path, k) == Min(path.w[k], path.w[k + 1])

\* VoronoiGraphUtils::get_max_width(longest_path)
get_max_width(path) == MaxSeq([k \in 1..Len(path.len2) |-> max_width(path, k)])

\* x coordinate of the k-th node, in half units
NodeX2(path, k) == SumSeq(SubSeq(path.len2, 1, k - 1))

\* VoronoiGraphUtils::get_position_with_width: ratio on edge k (from its source node)
\* where the linear width profile equals width
get_position_with_width(path, k, width) ==
    LET wa == path.w[k]
        wb == path.w[k + 1]
    IN  IF wa < wb /\ wa <= width /\ width <= wb
        THEN [num |-> width - wa, den |-> wb - wa]
        ELSE IF wa > wb /\ wb <= width /\ width <= wa
        THEN [num |-> wa - width, den |-> wa - wb]
        ELSE [num |-> 0, den |-> 1]

\* Position::calc_distance: static_cast<coord_t>(ratio * length)
calc_distance(len2, num, den) == (len2 * num) \div (2 * den)

\* create_position_on_path(path, distance): distance_q and actual_q in quarter units
RECURSIVE PositionOnPathLoop(_, _, _, _)
PositionOnPathLoop(path, k, actual_q, distance_q) ==
    IF k > Len(path.len2)
    THEN [found |-> FALSE, e |-> 0, num |-> 0, den |-> 1]
    ELSE LET a == actual_q + 2 * path.len2[k]
         IN  IF a >= distance_q
             THEN [found |-> TRUE, e |-> k,
                   num |-> 2 * path.len2[k] - (a - distance_q),
                   den |-> 2 * path.len2[k]]
             ELSE PositionOnPathLoop(path, k + 1, a, distance_q)

create_position_on_path(path, distance_q) == PositionOnPathLoop(path, 1, 0, distance_q)

\* create_position_on_path(path, lines, width, max_distance): returns the position and
\* the updated max_distance
RECURSIVE PositionWithWidthLoop(_, _, _, _, _)
PositionWithWidthLoop(path, k, actual_distance, width, max_distance) ==
    IF k > Len(path.len2)
    THEN [found |-> FALSE, e |-> 0, num |-> 0, den |-> 1, max_distance |-> max_distance]
    ELSE LET position == get_position_with_width(path, k, width)
             rest_distance == calc_distance(path.len2[k], position.num, position.den)
             distance == actual_distance + rest_distance
             actual == actual_distance + (path.len2[k] \div 2)
         IN  IF width <= max_width(path, k) /\ max_distance > distance
             THEN [found |-> TRUE, e |-> k, num |-> position.num, den |-> position.den,
                   max_distance |-> distance]
             ELSE IF actual >= max_distance
             THEN [found |-> TRUE, e |-> k,
                   num |-> path.len2[k] - 2 * (actual - max_distance),
                   den |-> path.len2[k], max_distance |-> max_distance]
             ELSE PositionWithWidthLoop(path, k + 1, actual, width, max_distance)

create_position_with_width(path, width, max_distance) ==
    PositionWithWidthLoop(path, 1, 0, width, max_distance)

\* A position found on the path walked in direction rev is stored with the index
\* of the edge in the forward numbering
GlobalPosition(path, p, rev) ==
    [e |-> IF rev THEN Len(path.len2) + 1 - p.e ELSE p.e, rev |-> rev,
     num |-> p.num, den |-> p.den]

\* x of a position in half units, times pos.den
PosX2Num(path, pos) ==
    IF pos.rev THEN NodeX2(path, pos.e + 1) * pos.den - path.len2[pos.e] * pos.num
    ELSE NodeX2(path, pos.e) * pos.den + path.len2[pos.e] * pos.num

\* VoronoiGraphUtils::create_edge_point: the point of a position, rounded to coord_t
create_edge_point(path, pos) == <<PosX2Num(path, pos) \div (2 * pos.den), 0>>

\* SupportIslandNoMovePoint
create_no_move_point(path, pos, type) ==
    [point |-> create_edge_point(path, pos), type |-> type, kind |-> "fixed",
     e |-> pos.e, rev |-> pos.rev, num |-> pos.num, den |-> pos.den]

\* a middle point searched at the distance path.length instead of path.length / 2
create_middle_path_point_full_length(path, type) ==
    LET p == create_position_on_path(path, 2 * PathLength2(path))
    IN  create_no_move_point(path, GlobalPosition(path, p, FALSE), type)

\* create_middle_path_point: distance = path.length / 2
create_middle_path_point(path, type) ==
    LET p == create_position_on_path(path, PathLength2(path))
    IN  create_no_move_point(path, GlobalPosition(path, p, FALSE), type)

\* cap of create_side_points
SideMaxDistance(path, cfg) ==
    Min(cfg.maximal_distance_from_outline,
        (PathLength2(path) * cfg.ratio_num) \div (2 * cfg.ratio_den))

create_side_points(path, cfg, type) ==
    LET max_distance == SideMaxDistance(path, cfg)
        width == 2 * cfg.head_radius
        pos1 == create_position_with_width(path, width, max_distance)
        pos2 == create_position_with_width(ReversePath(path), width, max_distance)
    IN  << create_no_move_point(path, GlobalPosition(path, pos1, FALSE), type),
           create_no_move_point(path, GlobalPosition(path, pos2, TRUE), type) >>

-----------------------------------------------------------------------------
(* Skeleton graph (VoronoiGraph).                                            *)
(* G.nb[n]  : neighbor n = [src, node, len2, twin]  (directed edge src->node) *)
(* G.out[v] : node v's neighbors, in the order of Node::neighbors             *)

\* the graph of a path: edge k forward is neighbor 2k-1, backward is neighbor 2k
PathGraph(path) ==
    LET n == Len(path.len2)
    IN  [nb |-> [i \in 1..(2 * n) |->
                    LET k == (i + 1) \div 2
                    IN  IF i % 2 = 1
                        THEN [src |-> k, node |-> k + 1, len2 |-> path.len2[k], twin |-> i + 1]
                        ELSE [src |-> k + 1, node |-> k, len2 |-> path.len2[k], twin |-> i - 1]],
         out |-> [v \in 1..(n + 1) |->
                    (IF v > 1 THEN <<2 * (v - 1)>> ELSE <<>>) \o
                    (IF v <= n THEN <<2 * v - 1>> ELSE <<>>)]]

\* neighbor id of a position stored with forward edge index and direction
NeighborOf(pos) == IF pos.rev THEN 2 * pos.e ELSE 2 * pos.e - 1

\* create_only_thin_part: center of the longest path, no ends
create_only_thin_part(path) ==
    LET p == create_position_on_path(path, PathLength2(path))
    IN  [center |-> [n |-> 2 * p.e - 1, num |-> p.num, den |-> p.den], ends |-> <<>>]

\* separate_thin_thick on an island whose skeleton never reaches thick_min_width:
\* detect_interface keeps the initial thin part on every edge, no post-processing
\* merges anything and convert_island_parts_to_thin_thick returns the only thin part
separate_thin_thick(path, cfg) ==
    [thin |-> <<create_only_thin_part(path)>>, thick |-> <<>>]

\* ends of a part on neighbor n, in the (address sorted) order of part.ends;
\* std::lower_bound finds the first of them
EndsOn(ends, n) == SelectSeq(ends, LAMBDA end : end.n = n)

\* inner loop of create_supports_for_thin_part: points on the current neighbor
RECURSIVE ThinEdgePoints(_, _, _, _, _)
ThinEdgePoints(n, len2, edge_length, support_in, support_distance) ==
    IF edge_length >= support_in
    THEN <<[n |-> n, num |-> 2 * support_in, den |-> len2, type |-> "thin_part_change"]>>
         \o ThinEdgePoints(n, len2, edge_length, support_in + support_distance, support_distance)
    ELSE <<>>

\* index of the entry of process whose neighbor is n (0: none), as std::find_if
FindNeighbor(process, n) ==
    IF \E i \in 1..Len(process) : process[i].neighbor = n
    THEN CHOOSE i \in 1..Len(process) :
            /\ process[i].neighbor = n
            /\ \A j \in 1..(i - 1) : process[j].neighbor # n
    ELSE 0

RemoveAt(s, i) == SubSeq(s, 1, i - 1) \o SubSeq(s, i + 1, Len(s))

\* one pass of the while loop of create_supports_for_thin_part
\* st = [curr, process, is_first_neighbor, results]; curr.neighbor = 0 is nullptr
ThinStep(G, part, cfg, st) ==
    LET support_distance == cfg.thin_max_distance
        half_support_distance == support_distance \div 2
        popped == st.curr.neighbor = 0
        curr == IF popped THEN st.process[Len(st.process)] ELSE st.curr
        process == IF popped THEN SubSeq(st.process, 1, Len(st.process) - 1) ELSE st.process
        n == curr.neighbor
        part_ends == EndsOn(part.ends, n)
        is_end_neighbor == part_ends # <<>>
        edge_length == IF is_end_neighbor
                       THEN calc_distance(G.nb[n].len2, part_ends[1].num, part_ends[1].den)
                       ELSE G.nb[n].len2 \div 2
        points == ThinEdgePoints(n, G.nb[n].len2, edge_length, curr.support_in, support_distance)
        support_in == curr.support_in + Len(points) * support_distance - edge_length
        results == st.results \o points
        twin == G.nb[n].twin
        process_it == FindNeighbor(process, twin)
        others == SelectSeq(G.out[G.nb[n].node], LAMBDA m : m # twin)
    IN  IF is_end_neighbor
        THEN [curr |-> [support_in |-> support_in, neighbor |-> 0],
              process |-> process, is_first_neighbor |-> st.is_first_neighbor,
              results |-> IF support_in < half_support_distance
                          THEN Append(results, [n |-> n, num |-> part_ends[1].num,
                                                den |-> part_ends[1].den, type |-> "thin_part"])
                          ELSE results]
        ELSE IF ~st.is_first_neighbor /\ process_it # 0
        THEN [curr |-> [support_in |-> support_in, neighbor |-> 0],
              process |-> RemoveAt(process, process_it), is_first_neighbor |-> FALSE,
              results |-> IF support_in < half_support_distance
                          THEN Append(results, [n |-> n, num |-> 1, den |-> 1,
                                                type |-> "thin_part_loop"])
                          ELSE results]
        ELSE [curr |-> [support_in |-> support_in,
                        neighbor |-> IF others = <<>> THEN 0 ELSE others[1]],
              process |-> IF others = <<>> THEN process
                          ELSE process \o [i \in 1..(Len(others) - 1) |->
                                              [support_in |-> support_in,
                                               neighbor |-> others[i + 1]]],
              is_first_neighbor |-> FALSE,
              results |-> results]

\* state before the loop
ThinStart(G, part, cfg) ==
    LET support_distance == cfg.thin_max_distance
        half_support_distance == support_distance \div 2
        c == part.center
        curr_in == half_support_distance + calc_distance(G.nb[c.n].len2, c.num, c.den)
        twin_start == G.nb[c.n].twin
        twin_support_in == (G.nb[twin_start].len2 \div 2) - curr_in + support_distance
    IN  [curr |-> [support_in |-> curr_in, neighbor |-> c.n],
         process |-> <<[support_in |-> twin_support_in, neighbor |-> twin_start]>>,
         is_first_neighbor |-> TRUE,
         results |-> <<>>]

RECURSIVE ThinRun(_, _, _, _)
ThinRun(G, part, cfg, st) ==
    IF st.curr.neighbor # 0 \/ st.process # <<>>
    THEN ThinRun(G, part, cfg, ThinStep(G, part, cfg, st))
    ELSE st.results

\* create_supports_for_thin_part: the positions and types appended to results
create_supports_for_thin_part(G, part, cfg) == ThinRun(G, part, cfg, ThinStart(G, part, cfg))

\* SupportCenterIslandPoint of a sampled position on the path skeleton
SkeletonPoint(path, r) ==
    LET pos == [e |-> (r.n + 1) \div 2, rev |-> r.n % 2 = 0, num |-> r.num, den |-> r.den]
    IN  [point |-> create_edge_point(path, pos), type |-> r.type, kind |-> "skeleton",
         e |-> pos.e, rev |-> pos.rev, num |-> pos.num, den |-> pos.den]

\* step 4 of uniform_support_island on an entirely thin island
SampleThinThick(path, cfg) ==
    LET parts == separate_thin_thick(path, cfg)
        G == PathGraph(path)
        r == create_supports_for_thin_part(G, parts.thin[1], cfg)
    IN  [i \in 1..Len(r) |-> SkeletonPoint(path, r[i])]

-----------------------------------------------------------------------------
(* Alignment: align_samples, align_once, move_duplicit_positions *)

to_points(sup) == [i \in 1..Len(sup) |-> sup[i].point]

can_move(s) == s.kind # "fixed"

\* largest coordinate of the island along its axis
IslandMaxX(path) == PathLength2(path) \div 2

\* extent of skeleton edge e in whole coordinates
EdgeLo(path, e) == (NodeX2(path, e) + 1) \div 2
EdgeHi(path, e) == NodeX2(path, e + 1) \div 2

\* SupportIslandPoint::move for the point variants: the new point and the distance moved.
\* A fixed point stays; a skeleton point is clamped to its skeleton edge.
Move(path, s, destination) ==
    IF s.kind = "fixed" THEN [s |-> s, distance |-> 0]
    ELSE LET x == Max(EdgeLo(path, s.e), Min(EdgeHi(path, s.e), destination[1]))
         IN  [s |-> [s EXCEPT !.point = <<x, 0>>, !.rev = FALSE,
                               !.num = 2 * x - NodeX2(path, s.e), !.den = path.len2[s.e]],
              distance |-> Abs(x - s.point[1]) + Abs(s.point[2])]

\* Voronoi cell of point i among points, capped at max_distance and cut by the island
\* (create_voronoi_cells_cgal + intersection): the interval <<lo, hi>> on the axis
IslandCell(path, points, i, max_distance) ==
    LET x == points[i][1]
        left == {points[j][1] : j \in 1..Len(points)} \cap (0..(x - 1))
        right == {points[j][1] : j \in 1..Len(points)} \cap ((x + 1)..IslandMaxX(path))
        xl == IF left = {} THEN 0 ELSE CHOOSE v \in left : \A u \in left : u <= v
        xr == IF right = {} THEN IslandMaxX(path) ELSE CHOOSE v \in right : \A u \in right : v <= u
        lo == IF left = {} THEN 0 ELSE (x + xl + 1) \div 2
        hi == IF right = {} THEN IslandMaxX(path) ELSE (x + xr) \div 2
    IN  <<Max(lo, x - max_distance), Min(hi, x + max_distance)>>

\* Polygon::centroid of the island cell.  The cell of the program is two dimensional
\* and its centroid depends on the outline; the model admits the middle and both
\* extremes of the cell.
CellCenters(cell) == <<cell[1], (cell[1] + cell[2]) \div 2, cell[2]>>

AlignMaxDistance(cfg) ==
    Max(Max(cfg.thin_max_distance, cfg.thick_inner_max_distance), cfg.thick_outline_max_distance)

\* the for loop of align_once for one choice of cell centers:
\* centers[i] is the destination of support i
AlignOnceMoves(path, sup, centers) ==
    [i \in 1..Len(sup) |->
        IF ~can_move(sup[i]) THEN [s |-> sup[i], distance |-> 0]
        ELSE Move(path, sup[i], <<centers[i], 0>>)]

MaxMove(moves) == MaxSeq([i \in 1..Len(moves) |-> moves[i].distance] \o <<0>>)

\* get_duplicit_index: with the indices sorted by position, the index that follows an
\* index of equal position.  std::sort leaves the order of equal positions open, so
\* every member of the first group of equal positions can be the one returned.
PointLess(a, b) == a[1] < b[1] \/ (a[1] = b[1] /\ a[2] < b[2])

\* a search for duplicates that never finds one
DuplicitIndicesNone(aligned) == {}

DuplicitIndices(aligned) ==
    LET dup == {i \in 1..Len(aligned) : \E j \in 1..Len(aligned) : j # i /\ aligned[j] = aligned[i]}
    IN  {i \in dup : \A j \in dup : ~PointLess(aligned[j], aligned[i])}

\* a corrective step that writes the new position into the point instead of asking
\* the point to move
MoveDuplicitStepAssign(path, sup, prev, duplicit_index) ==
    LET aligned == to_points(sup)
        new_pos == <<TruncDiv(prev[duplicit_index][1], 2) + TruncDiv(aligned[duplicit_index][1], 2),
                     TruncDiv(prev[duplicit_index][2], 2) + TruncDiv(aligned[duplicit_index][2], 2)>>
    IN  [sup EXCEPT ![duplicit_index].point = new_pos]

\* body of the do-while of move_duplicit_positions for the duplicate index chosen
MoveDuplicitStep(path, sup, prev, duplicit_index) ==
    LET aligned == to_points(sup)
        new_pos == <<TruncDiv(prev[duplicit_index][1], 2) + TruncDiv(aligned[duplicit_index][1], 2),
                     TruncDiv(prev[duplicit_index][2], 2) + TruncDiv(aligned[duplicit_index][2], 2)>>
    IN  [sup EXCEPT ![duplicit_index] = Move(path, sup[duplicit_index], new_pos).s]

has_duplicate_points(points) ==
    \E i, j \in 1..Len(points) : i # j /\ points[i] = points[j]

-----------------------------------------------------------------------------
(* Inputs of the model *)

\* strip islands: a skeleton path of three edges along y = 0, width 0 at both ends
StripPath(a, b, w) == [len2 |-> <<a, b, a>>, w |-> <<0, w, w, 0>>]

StripIsland(a, b, w) ==
    LET path == StripPath(a, b, w)
        lx == (PathLength2(path) + 1) \div 2
        h == (w + 1) \div 2
    IN  [contour |-> << <<0, -h>>, <<lx, -h>>, <<lx, h>>, <<0, h>> >>,
         holes |-> <<>>, path |-> path]

PolygonIsland(contour, holes) ==
    [contour |-> contour, holes |-> holes, path |-> [len2 |-> <<>>, w |-> <<0>>]]

EndLengths == {3, 4}
MidLengths == {4, 5, 12, 17, 26, 32}
Widths == {3, 5}

Strips == {StripIsland(a, b, w) : a \in EndLengths, b \in MidLengths, w \in Widths}

SmallPolygons ==
    { PolygonIsland(<< <<0, 0>>, <<2, 0>>, <<0, 2>> >>, <<>>),
      PolygonIsland(<< <<1, 1>>, <<3, 1>>, <<1, 3>> >>, <<>>),
      PolygonIsland(<< <<3, 1>>, <<3, 3>>, <<1, 3>> >>, <<>>),
      PolygonIsland(<< <<-3, -3>>, <<-1, -3>>, <<-3, -1>> >>, <<>>),
      PolygonIsland(<< <<0, 0>>, <<4, 0>>, <<4, 1>>, <<1, 1>>, <<1, 4>>, <<0, 4>> >>, <<>>),
      PolygonIsland(<< <<0, 0>>, <<4, 0>>, <<4, 4>>, <<0, 4>> >>,
                    << << <<1, 1>>, <<1, 3>>, <<3, 3>>, <<3, 1>> >> >>) }

Islands == Strips \cup SmallPolygons

\* configurations that exercise the dispatch of uniform_support_island
DispatchConfigs ==
    [ head_radius : {1, 4},
      thin_max_width : {8},
      thick_min_width : {6},
      thin_max_distance : {6, 9},
      thick_inner_max_distance : {6},
      thick_outline_max_distance : {6},
      maximal_distance_from_outline : {1, 3},
      max_length_for_one_support_point : {6},
      max_length_for_two_support_points : {12},
      ratio_num : {1},
      ratio_den : {4},
      count_iteration : {3},
      minimal_move : {1} ]

\* configurations that exercise the loop of align_samples
AlignConfigs ==
    [ head_radius : {1},
      thin_max_width : {8},
      thick_min_width : {6},
      thin_max_distance : {6},
      thick_inner_max_distance : {6},
      thick_outline_max_distance : {6},
      maximal_distance_from_outline : {1},
      max_length_for_one_support_point : {6},
      max_length_for_two_support_points : {12},
      ratio_num : {1},
      ratio_den : {4},
      count_iteration : 0..MaxCountIteration,
      minimal_move : {2} ]

AlignIslands == {StripIsland(4, 26, 5)}

\* the skeleton of a polygon island is not part of the model: it is sampled only
\* when the bounding box test of step 0 accepts it
HasSkeleton(isl) == isl.path.len2 # <<>>
FitsHeadRadius(isl, cfg) ==
    /\ BBoxMax(isl.contour, 1) - BBoxMin(isl.contour, 1) <= cfg.head_radius
    /\ BBoxMax(isl.contour, 2) - BBoxMin(isl.contour, 2) <= cfg.head_radius

-----------------------------------------------------------------------------
(* uniform_support_island *)

Init ==
    /\ \/ island \in Islands /\ config \in DispatchConfigs
       \/ island \in AlignIslands /\ config \in AlignConfigs
    /\ HasSkeleton(island) \/ FitsHeadRadius(island, config)
    /\ pc = "start"
    /\ supports = <<>>
    /\ branch = "none"
    /\ sampled = <<>>
    /\ count_iteration = 0
    /\ max_move = 0
    /\ sweeps = 0
    /\ first_small = 0
    /\ prev_position = <<>>
    /\ dup_fixed = {}
    /\ address = <<>>
    /\ first_output = <<>>
    /\ SegIdle /\ LoadIdle

AlignVarsUnchanged ==
    UNCHANGED <<count_iteration, max_move, sweeps, first_small, prev_position, dup_fixed,
                address, first_output, SegVars, LoadVars>>

IsTiny == get_center(island.contour, config.head_radius).ok

IsOnePoint ==
    /\ ~IsTiny
    /\ PathLength2(island.path) < 2 * config.max_length_for_one_support_point

IsTwoPoints ==
    /\ ~IsTiny /\ ~IsOnePoint
    /\ get_max_width(island.path) < config.thin_max_width
    /\ PathLength2(island.path) < 2 * config.max_length_for_two_support_points

\* a backup test that lets two sampled points through
NeedsBackupBelowTwo(s) == Len(s) < 2

\* if (supports.size() <= 2): the sampled points are replaced by the two side points
NeedsBackup(s) == Len(s) <= 2

\* 0) the island fits the head: one point in the centre of the bounding box
TinyIsland ==
    /\ pc = "start"
    /\ IsTiny
    /\ supports' = << [point |-> get_center(island.contour, config.head_radius).center,
                       type |-> "one_bb_center_point", kind |-> "fixed",
                       e |-> 0, rev |-> FALSE, num |-> 0, den |-> 1] >>
    /\ branch' = "one_bb_center"
    /\ pc' = "done"
    /\ UNCHANGED <<island, config, sampled>>
    /\ AlignVarsUnchanged

\* 1) one support point in the middle of the longest path
OnePoint ==
    /\ pc = "start"
    /\ IsOnePoint
    /\ supports' = << create_middle_path_point(island.path, "one_center_point") >>
    /\ branch' = "one_center"
    /\ pc' = "done"
    /\ UNCHANGED <<island, config, sampled>>
    /\ AlignVarsUnchanged

\* 2) two support points on the sides of the longest path
TwoPoints ==
    /\ pc = "start"
    /\ IsTwoPoints
    /\ supports' = create_side_points(island.path, config, "two_points")
    /\ branch' = "two_points"
    /\ pc' = "done"
    /\ UNCHANGED <<island, config, sampled>>
    /\ AlignVarsUnchanged

\* 4) thin/thick sampling; at most two points are replaced by the two side points
SampleBackup ==
    /\ pc = "start"
    /\ ~IsTiny /\ ~IsOnePoint /\ ~IsTwoPoints
    /\ LET s == SampleThinThick(island.path, config)
       IN  /\ NeedsBackup(s)
           /\ sampled' = s
    /\ supports' = create_side_points(island.path, config, "two_points_backup")
    /\ branch' = "two_points_backup"
    /\ pc' = "done"
    /\ UNCHANGED <<island, config>>
    /\ AlignVarsUnchanged

\* 4) thin/thick sampling; three or more points go to align_samples
SampleAlign ==
    /\ pc = "start"
    /\ ~IsTiny /\ ~IsOnePoint /\ ~IsTwoPoints
    /\ LET s == SampleThinThick(island.path, config)
       IN  /\ ~NeedsBackup(s)
           /\ sampled' = s
           /\ supports' = s
    /\ branch' = "aligned"
    /\ pc' = "align_samples"
    /\ UNCHANGED <<island, config>>
    /\ AlignVarsUnchanged

\* align_samples up to its loop: nothing to do for one sample or without a movable one
AlignEnter ==
    /\ pc = "align_samples"
    /\ IF Len(supports) = 1 \/ ~(\E i \in 1..Len(supports) : can_move(supports[i]))
       THEN /\ pc' = "done"
            /\ UNCHANGED count_iteration
       ELSE /\ pc' = "align_loop"
            /\ count_iteration' = config.count_iteration
    /\ max_move' = 0
    /\ UNCHANGED <<island, config, supports, branch, sampled, sweeps, first_small,
                   prev_position, dup_fixed>>
    /\ UNCHANGED <<address, first_output, SegVars, LoadVars>>

\* while (--count_iteration > 1): the loop is left
AlignLoopExit ==
    /\ pc = "align_loop"
    /\ ~(SizeTDec(count_iteration) > 1)
    /\ count_iteration' = SizeTDec(count_iteration)
    /\ pc' = "done"
    /\ UNCHANGED <<island, config, supports, branch, sampled, max_move, sweeps,
                   first_small, prev_position, dup_fixed>>
    /\ UNCHANGED <<address, first_output, SegVars, LoadVars>>

\* while (--count_iteration > 1): align_once up to the call of move_duplicit_positions
AlignOnce ==
    /\ pc = "align_loop"
    /\ SizeTDec(count_iteration) > 1
    /\ sweeps < MaxSweeps
    /\ count_iteration' = SizeTDec(count_iteration)
    /\ LET points == to_points(supports)
           cells == [i \in 1..Len(points) |->
                        IslandCell(island.path, points, i, AlignMaxDistance(config))]
       IN  \E which \in [1..Len(points) -> 1..3] :
              LET centers == [i \in 1..Len(points) |-> CellCenters(cells[i])[which[i]]]
                  moves == AlignOnceMoves(island.path, supports, centers)
              IN  /\ supports' = [i \in 1..Len(points) |-> moves[i].s]
                  /\ max_move' = MaxMove(moves)
                  /\ prev_position' = points
    /\ sweeps' = sweeps + 1
    /\ dup_fixed' = {}
    /\ pc' = "move_duplicit"
    /\ UNCHANGED <<island, config, branch, sampled, first_small>>
    /\ UNCHANGED <<address, first_output, SegVars, LoadVars>>

\* move_duplicit_positions: one corrective step for a duplicate position
MoveDuplicit ==
    /\ pc = "move_duplicit"
    /\ DuplicitIndices(to_points(supports)) # {}
    /\ \E duplicit_index \in DuplicitIndices(to_points(supports)) :
          /\ supports' = MoveDuplicitStep(island.path, supports, prev_position, duplicit_index)
          /\ dup_fixed' = dup_fixed \cup {duplicit_index}
    /\ UNCHANGED <<island, config, pc, branch, sampled, count_iteration, max_move, sweeps,
                   first_small, prev_position>>
    /\ UNCHANGED <<address, first_output, SegVars, LoadVars>>

\* move_duplicit_positions finds no duplicate: align_once returns max_move and
\* align_samples breaks the loop when the move was small
AlignOnceReturn ==
    /\ pc = "move_duplicit"
    /\ DuplicitIndices(to_points(supports)) = {}
    /\ first_small' = IF first_small = 0 /\ max_move < config.minimal_move
                      THEN sweeps ELSE first_small
    /\ pc' = IF max_move < config.minimal_move THEN "done" ELSE "align_loop"
    /\ UNCHANGED <<island, config, supports, branch, sampled, count_iteration, max_move,
                   sweeps, prev_position, dup_fixed>>
    /\ UNCHANGED <<address, first_output, SegVars, LoadVars>>

Next ==
    \/ TinyIsland
    \/ OnePoint
    \/ TwoPoints
    \/ SampleBackup
    \/ SampleAlign
    \/ AlignEnter
    \/ AlignLoopExit
    \/ AlignOnce
    \/ MoveDuplicit
    \/ AlignOnceReturn

Spec == Init /\ [][Next]_vars

-----------------------------------------------------------------------------
(* align_samples called on a sample set of its own: fixed and movable points,     *)
(* also at equal positions (the assert on duplicates at the entry of              *)
(* align_samples is compiled out of release builds)                               *)

UnitIsland == StripIsland(4, 12, 5)

\* the skeleton edge that carries the coordinate x
EdgeOfX(path, x) ==
    CHOOSE k \in 1..Len(path.len2) :
        /\ EdgeLo(path, k) <= x /\ x <= EdgeHi(path, k)
        /\ \A j \in 1..(k - 1) : ~(EdgeLo(path, j) <= x /\ x <= EdgeHi(path, j))

UnitPoint(path, x, kind, type) ==
    LET k == EdgeOfX(path, x)
    IN  [point |-> <<x, 0>>, type |-> type, kind |-> kind, e |-> k, rev |-> FALSE,
         num |-> 2 * x - NodeX2(path, k), den |-> path.len2[k]]

UnitTypes == <<"thin_part", "thin_part_change", "thin_part_loop">>

UnitPositions == { <<2>>, <<2, 7>>, <<5, 5>>, <<2, 5, 7>>, <<5, 5, 8>>, <<3, 5, 5>> }

UnitSamples ==
    UNION { { [i \in 1..Len(xs) |-> UnitPoint(UnitIsland.path, xs[i], kinds[i], UnitTypes[i])] :
                kinds \in [1..Len(xs) -> {"fixed", "skeleton"}] } : xs \in UnitPositions }

InitAlign ==
    /\ island = UnitIsland
    /\ config \in AlignConfigs
    /\ supports \in UnitSamples
    /\ sampled = supports
    /\ pc = "align_samples"
    /\ branch = "align_samples"
    /\ count_iteration = 0
    /\ max_move = 0
    /\ sweeps = 0
    /\ first_small = 0
    /\ prev_position = <<>>
    /\ dup_fixed = {}
    /\ address = <<>>
    /\ first_output = <<>>
    /\ SegIdle /\ LoadIdle

NextAlign ==
    \/ AlignEnter
    \/ AlignLoopExit
    \/ AlignOnce
    \/ MoveDuplicit
    \/ AlignOnceReturn

SpecAlign == InitAlign /\ [][NextAlign]_vars

-----------------------------------------------------------------------------
(* Thick part of an island: convert_island_parts_to_thin_thick,              *)
(* create_thick_field and sample_outline.                                    *)
(* Lines carry the labels 0 .. Len(lines) - 1 of the program: the line with  *)
(* label i is lines[i + 1].                                                  *)

LineAt(lines, i) == lines[i + 1]

\* LineUtils::SortFromAToB::compare: l lies before r in the direction of the line
Before(line, l, r) ==
    (l[1] - line.a[1]) * (line.b[1] - line.a[1]) + (l[2] - line.a[2]) * (line.b[2] - line.a[2])
  < (r[1] - line.a[1]) * (line.b[1] - line.a[1]) + (r[2] - line.a[2]) * (line.b[2] - line.a[2])

\* LineUtils::create_line_connection_over_b: the label of the line that starts where
\* the line with label i ends
b_connection(lines, i) ==
    CHOOSE j \in 0..(Len(lines) - 1) : LineAt(lines, j).a = LineAt(lines, i).b

\* std::sort(ends, a.neighbor < b.neighbor): the ends ordered by the address of their
\* neighbor
RECURSIVE SortByAddress(_, _)
SortByAddress(ends, addr) ==
    IF ends = <<>> THEN <<>>
    ELSE LET k == CHOOSE i \in 1..Len(ends) :
                     \A j \in 1..Len(ends) : addr[ends[i].neighbor] <= addr[ends[j].neighbor]
         IN  <<ends[k]>> \o SortByAddress(RemoveAt(ends, k), addr)

\* convert_island_parts_to_thin_thick for a thick part: the ends sorted by address,
\* start = twin of the first of them
ThickPartOf(isl, addr) ==
    LET ends == SortByAddress(isl.changes, addr)
    IN  [start |-> isl.twin[ends[1].neighbor], ends |-> ends]

\* VectorUtils::insert_sorted with WideTinyChange::SortFromAToB
InsertSorted(changes, change, line) ==
    LET k == Cardinality({i \in 1..Len(changes) : ~Before(line, change.new_b, changes[i].new_b)})
    IN  SubSeq(changes, 1, k) \o <<change>> \o SubSeq(changes, k + 1, Len(changes))

\* the loop over part.ends of create_thick_field: wide_tiny_changes, a map from the
\* label of a line to the changes on it (<<>>: no entry)
RECURSIVE WideTinyChanges(_, _, _)
WideTinyChanges(ends, lines, W) ==
    IF ends = <<>> THEN W
    ELSE LET position == Head(ends)
             key == IF position.opposite THEN position.i2 ELSE position.i1
             change == IF position.opposite
                       THEN [new_b |-> position.p2, next_new_a |-> position.p1,
                             next_line_index |-> position.i1]
                       ELSE [new_b |-> position.p1, next_new_a |-> position.p2,
                             next_line_index |-> position.i2]
         IN  WideTinyChanges(Tail(ends), lines,
                 [W EXCEPT ![key] = InsertSorted(@, change, LineAt(lines, key))])

\* a walk that never sees itself come back in front of the first change
is_never_before_first_change(W, lines, input_index, point_on_input_line) == FALSE

\* is_before_first_change of insert_changes
is_before_first_change(W, lines, input_index, point_on_input_line) ==
    \A i \in 1..Len(W[input_index]) :
        ~Before(LineAt(lines, input_index), W[input_index][i].new_b, point_on_input_line)

\* index of the first change of changes that is not before last_point (0: none)
ChangeIndex(changes, line, last_point) ==
    LET ok == {i \in 1..Len(changes) : ~Before(line, changes[i].new_b, last_point)}
    IN  IF ok = {} THEN 0 ELSE CHOOSE i \in ok : \A j \in ok : i <= j

\* insert_changes: st = [index, points, source_indices, done]; returns the state and
\* the value returned (FALSE: the loop is closed by a change)
RECURSIVE insert_changes(_, _, _, _)
insert_changes(W, lines, input_index, st) ==
    IF W[st.index] = <<>> THEN [st |-> st, result |-> TRUE]
    ELSE LET changes == W[st.index]
             change_index == IF st.points = <<>> THEN 1
                             ELSE ChangeIndex(changes, LineAt(lines, st.index),
                                              st.points[Len(st.points)])
         IN  IF change_index = 0 THEN [st |-> st, result |-> TRUE]
             ELSE IF st.points # <<>> /\ st.index = input_index /\ change_index = 1
             THEN [st |-> st, result |-> FALSE]
             ELSE LET change == changes[change_index]
                      double == st.points # <<>> /\ st.points[Len(st.points)] = change.new_b
                      points1 == IF double THEN st.points ELSE Append(st.points, change.new_b)
                      source1 == IF double
                                 THEN [st.source_indices EXCEPT ![Len(st.source_indices)] = Len(lines)]
                                 ELSE Append(st.source_indices, Len(lines))
                      keep == LineAt(lines, change.next_line_index).b # change.next_new_a
                      st2 == [index |-> change.next_line_index,
                              points |-> IF keep THEN Append(points1, change.next_new_a)
                                         ELSE points1,
                              source_indices |-> IF keep
                                                 THEN Append(source1, change.next_line_index)
                                                 ELSE source1,
                              done |-> st.done \cup {st.index}]
                  IN  IF /\ st.index # input_index
                         /\ input_index = change.next_line_index
                         /\ is_before_first_change(W, lines, input_index, change.next_new_a)
                      THEN [st |-> [st2 EXCEPT !.index = st.index], result |-> FALSE]
                      ELSE insert_changes(W, lines, input_index, st2)

\* inser_point_b
inser_point_b(lines, st) ==
    LET next == b_connection(lines, st.index)
    IN  [index |-> next,
         points |-> Append(st.points, LineAt(lines, st.index).b),
         source_indices |-> Append(st.source_indices, next),
         done |-> st.done \cup {st.index}]

\* do { if (!insert_changes(..)) break; inser_point_b(..); } while (outline_index != input_index)
RECURSIVE FieldWalk(_, _, _, _)
FieldWalk(W, lines, input_index, st) ==
    LET r == insert_changes(W, lines, input_index, st)
    IN  IF ~r.result THEN r.st
        ELSE LET st2 == inser_point_b(lines, r.st)
             IN  IF st2.index = input_index THEN st2
                 ELSE FieldWalk(W, lines, input_index, st2)

\* create_thick_field for a part without holes: the border contour and is_outline.
\* The inner polygon is the border itself (minimal_distance_from_outline = 0) and
\* field_2_inner the identity.
create_thick_field(part, isl) ==
    LET lines == isl.lines
        W == WideTinyChanges(part.ends, lines, [i \in 0..(Len(lines) - 1) |-> <<>>])
        input_index == Min(isl.cell[part.start], isl.cell[isl.twin[part.start]])
        walk == FieldWalk(W, lines, input_index,
                          [index |-> input_index, points |-> <<>>,
                           source_indices |-> <<>>, done |-> {}])
    IN  [border |-> walk.points,
         is_outline |-> [i \in 1..Len(walk.source_indices) |->
                            walk.source_indices[i] # Len(lines)]]

\* to_lines of a polygon
to_lines(polygon) ==
    [i \in 1..Len(polygon) |-> [a |-> polygon[i], b |-> polygon[NextIdx(polygon, i)]]]

\* Line::length of an axis parallel line
LineLength(line) == Abs(line.b[1] - line.a[1]) + Abs(line.b[2] - line.a[2])

\* the point of a SupportOutlineIslandPoint::Position(index, ratio = num / den)
OutlinePoint(line, num, den) ==
    [point |-> <<line.a[1] + TruncDiv((line.b[1] - line.a[1]) * num, den),
                 line.a[2] + TruncDiv((line.b[2] - line.a[2]) * num, den)>>,
     type |-> "thick_part_outline", kind |-> "outline"]

\* add_sample: the while loop on one line; returns the samples and last_support
RECURSIVE add_sample(_, _, _, _)
add_sample(line, last_support, sample_distance, result) ==
    IF last_support + LineLength(line) > sample_distance
    THEN add_sample(line, last_support - sample_distance, sample_distance,
                    Append(result, OutlinePoint(line, sample_distance - last_support,
                                                LineLength(line))))
    ELSE [result |-> result, last_support |-> last_support + LineLength(line)]

RECURSIVE AddSamples(_, _, _, _, _)
AddSamples(lines, index, last_support, sample_distance, result) ==
    IF index > Len(lines) THEN result
    ELSE LET r == add_sample(lines[index], last_support, sample_distance, result)
         IN  AddSamples(lines, index + 1, r.last_support, sample_distance, r.result)

\* add_lines_samples: the inner lines first_index .. last_index (labels, cyclic)
add_lines_samples(inner_lines, first_index, last_index, sample_distance) ==
    LET last == last_index + 1
        lines == IF first_index > last
                 THEN SubSeq(inner_lines, first_index + 1, Len(inner_lines))
                      \o SubSeq(inner_lines, 1, last)
                 ELSE SubSeq(inner_lines, first_index + 1, last)
        sum_lengths == SumSeq([i \in 1..Len(lines) |-> LineLength(lines[i])])
        last_support == Min(sum_lengths, sample_distance) \div 2
    IN  AddSamples(lines, 1, last_support, sample_distance, <<>>)

\* add_circle_sample: the whole ring
add_circle_sample(inner_lines, sample_distance) ==
    LET sum_lengths == SumSeq([i \in 1..Len(inner_lines) |-> LineLength(inner_lines[i])])
        last_support == Min(sum_lengths, sample_distance) \div 2
    IN  AddSamples(inner_lines, 1, last_support, sample_distance, <<>>)

\* do { ++polygon_index; wrap } while (!is_outline[..]): the first outline index after
\* the first change (-1: the polygon has no line to support)
RECURSIVE FirstOutlineAfter(_, _, _)
FirstOutlineAfter(is_outline, polygon_index, first_change_index) ==
    LET next == polygon_index + 1
    IN  IF next = Len(is_outline) /\ first_change_index = 0 THEN -1
        ELSE LET p == IF next = Len(is_outline) THEN 0 ELSE next
             IN  IF is_outline[p + 1] THEN p
                 ELSE FirstOutlineAfter(is_outline, p, first_change_index)

\* the for loop of sample_polygon; inner_first = -1 is inner_invalid
RECURSIVE SampleRuns(_, _, _, _, _, _, _)
SampleRuns(is_outline, inner_lines, polygon_index, stop_index, inner_first, inner_last, sd) ==
    IF polygon_index = stop_index
    THEN IF inner_first # -1
         THEN add_lines_samples(inner_lines, inner_first, inner_last, sd) ELSE <<>>
    ELSE LET p == IF polygon_index = Len(is_outline) THEN 0 ELSE polygon_index
         IN  IF ~is_outline[p + 1]
             THEN (IF inner_first = -1 THEN <<>>
                   ELSE add_lines_samples(inner_lines, inner_first, inner_last, sd))
                  \o SampleRuns(is_outline, inner_lines, p + 1, stop_index, -1, -1, sd)
             ELSE SampleRuns(is_outline, inner_lines, p + 1, stop_index,
                             IF inner_first = -1 THEN p ELSE inner_first, p, sd)

\* sample_polygon on the contour of the field
sample_polygon(field, sample_distance) ==
    LET n == Len(field.border)
        changes == {i \in 0..(n - 1) : ~field.is_outline[i + 1]}
        inner_lines == to_lines(field.border)
    IN  IF changes = {} THEN add_circle_sample(inner_lines, sample_distance)
        ELSE LET first_change_index == CHOOSE i \in changes : \A j \in changes : i <= j
                 stop_index == IF first_change_index = 0 THEN n ELSE first_change_index
                 start == FirstOutlineAfter(field.is_outline, first_change_index,
                                            first_change_index)
             IN  IF start = -1 THEN <<>>
                 ELSE SampleRuns(field.is_outline, inner_lines, start, stop_index,
                                 -1, -1, sample_distance)

\* sample_outline of a field without holes
sample_outline(field, cfg) ==
    IF Len(field.border) < 3 THEN <<>>
    ELSE sample_polygon(field, cfg.thick_outline_max_distance)

\* the outline supports that create_supports_for_thick_part appends to the result
create_supports_for_thick_part(part, isl, cfg) ==
    sample_outline(create_thick_field(part, isl), cfg)

\* An island with a thick body between two thin arms.  The skeleton runs along
\* y = 0; the thick part ends on the arms at x = 9 and x = 21.
DetVertices ==
    << <<0, -1>>, <<10, -1>>, <<10, -5>>, <<20, -5>>, <<20, -1>>, <<30, -1>>,
       <<30, 1>>, <<20, 1>>, <<20, 5>>, <<10, 5>>, <<10, 1>>, <<0, 1>> >>

\* the contour that starts s vertices earlier: the line from DetVertices[j + 1] gets
\* the label (j + s) % 12
DetLabel(s, j) == (j + s) % Len(DetVertices)

DetLines(s) ==
    [k \in 1..Len(DetVertices) |->
        LET j == (k - 1 - s + Len(DetVertices)) % Len(DetVertices)
        IN  [a |-> DetVertices[j + 1], b |-> DetVertices[((j + 1) % Len(DetVertices)) + 1]]]

\* Neighbors 1 and 3 leave the thick part to the left and to the right arm, 2 and 4 are
\* their twins.  cell[n] is edge->cell()->source_index() of neighbor n.  The changes of
\* the thick part are listed in the order separate_thin_thick meets them.
DetIsland(s) ==
    LET cell == <<DetLabel(s, 0), DetLabel(s, 10), DetLabel(s, 6), DetLabel(s, 4)>>
    IN  [lines |-> DetLines(s),
         twin |-> <<2, 1, 4, 3>>,
         cell |-> cell,
         changes |-> << [neighbor |-> 1, i1 |-> cell[1], i2 |-> cell[2],
                         p1 |-> <<9, -1>>, p2 |-> <<9, 1>>, opposite |-> TRUE],
                        [neighbor |-> 3, i1 |-> cell[3], i2 |-> cell[4],
                         p1 |-> <<21, 1>>, p2 |-> <<21, -1>>, opposite |-> TRUE] >>]

DetIslands == {DetIsland(s) : s \in 0..(Len(DetVertices) - 1)}

DetConfigs ==
    {[c EXCEPT !.thick_outline_max_distance = d] : c \in DispatchConfigs, d \in {4, 6}}

\* the possible orders of the addresses of the four neighbors
AddressOrders == {f \in [1..4 -> 1..4] : \A i, j \in 1..4 : i # j => f[i] # f[j]}

InitDet ==
    /\ island \in DetIslands
    /\ config \in {c \in DetConfigs : c.head_radius = 1 /\ c.thin_max_distance = 6
                                      /\ c.maximal_distance_from_outline = 1}
    /\ address \in AddressOrders
    /\ pc = "first_call"
    /\ supports = <<>>
    /\ first_output = <<>>
    /\ branch = "thick"
    /\ sampled = <<>>
    /\ count_iteration = 0
    /\ max_move = 0
    /\ sweeps = 0
    /\ first_small = 0
    /\ prev_position = <<>>
    /\ dup_fixed = {}
    /\ SegIdle /\ LoadIdle

\* the thick part of the island is converted and sampled
ThickInvocation ==
    /\ pc \in {"first_call", "second_call"}
    /\ supports' = create_supports_for_thick_part(ThickPartOf(island, address), island, config)
    /\ pc' = IF pc = "first_call" THEN "returned" ELSE "done"
    /\ UNCHANGED <<island, config, branch, sampled, count_iteration, max_move, sweeps,
                   first_small, prev_position, dup_fixed, address, first_output,
                   SegVars, LoadVars>>

\* the same island and config are sampled again; the skeleton is rebuilt and its
\* neighbors get new addresses
Reinvoke ==
    /\ pc = "returned"
    /\ first_output' = supports
    /\ supports' = <<>>
    /\ address' \in AddressOrders
    /\ pc' = "second_call"
    /\ UNCHANGED <<island, config, branch, sampled, count_iteration, max_move, sweeps,
                   first_small, prev_position, dup_fixed, SegVars, LoadVars>>

NextDet ==
    \/ ThickInvocation
    \/ Reinvoke

SpecDet == InitDet /\ [][NextDet]_vars

-----------------------------------------------------------------------------
(* Properties of uniform_support_island *)

\* distance of support s from the start of the path, in half units times s.den
ArcFromStart(path, s) == PosX2Num(path, s)

\* C1: every raster point of an entirely thin island is within thin_max_distance of
\* some returned support point (raster laid along the axis of the island)
C1_RasterCovered ==
    (pc = "done" /\ HasSkeleton(island)) =>
        \A x \in 0..IslandMaxX(island.path) :
            \E i \in 1..Len(supports) :
                /\ Abs(supports[i].point[1] - x) <= config.thin_max_distance
                /\ Abs(supports[i].point[2]) <= config.thin_max_distance

\* C2: every returned support point lies inside the island, whichever branch made it
C2_PointsInsideIsland ==
    pc = "done" => \A i \in 1..Len(supports) : Contains(island, supports[i].point)

\* C3: a list of two or more support points returned after alignment has pairwise
\* distinct positions
C3_AlignedPositionsDistinct ==
    (pc = "done" /\ branch = "aligned" /\ Len(supports) >= 2) =>
        ~has_duplicate_points(to_points(supports))

C3_Witness ==
    /\ pc = "done" /\ branch = "aligned" /\ Len(supports) >= 2
    /\ sweeps >= 1 /\ dup_fixed # {}

\* C4: two invocations on the same island and config return identical output (same
\* positions, types and order), whatever the addresses of the skeleton neighbors
C4_SameOutput ==
    pc = "done" => supports = first_output

\* the result of the tiny branch: one point of type one_bb_center, nothing else done
TinyResult ==
    /\ branch = "one_bb_center"
    /\ Len(supports) = 1
    /\ supports[1].type = "one_bb_center_point"
    /\ sampled = <<>>
    /\ sweeps = 0

\* twice the distance of the returned point from the centre of the bounding box
TinyCentreError2(k) ==
    Abs(2 * supports[1].point[k] - (BBoxMin(island.contour, k) + BBoxMax(island.contour, k)))

\* C5 as stated: a bounding box within head_radius gives exactly one one_bb_center
\* point at the centre of the bounding box (the nearest coordinate to it), without
\* skeleton, sampling or alignment
C5_TinyAtBBoxCentre ==
    (pc = "done" /\ FitsHeadRadius(island, config)) =>
        /\ TinyResult
        /\ \A k \in 1..2 : TinyCentreError2(k) <= 1

\* C5 amended: ... one one_bb_center point within one coordinate unit of the centre
\* of the bounding box (min/2 + max/2 with truncated halves)
C5_TinyNearBBoxCentre ==
    (pc = "done" /\ FitsHeadRadius(island, config)) =>
        /\ TinyResult
        /\ \A k \in 1..2 : TinyCentreError2(k) <= 2

C5_Witness ==
    /\ pc = "done" /\ FitsHeadRadius(island, config) /\ branch = "one_bb_center"
    /\ \E k \in 1..2 : TinyCentreError2(k) = 2

\* C6: a not tiny island with a longest path shorter than
\* max_length_for_one_support_point gets exactly one fixed point of type one_center,
\* on the longest path at arc length length / 2 from both ends
C6_OneCenterAtHalfLength ==
    (pc = "done" /\ IsOnePoint) =>
        /\ Len(supports) = 1
        /\ supports[1].type = "one_center_point"
        /\ ~can_move(supports[1])
        /\ 2 * ArcFromStart(island.path, supports[1])
              = PathLength2(island.path) * supports[1].den
        /\ 2 * (PathLength2(island.path) * supports[1].den
                   - ArcFromStart(island.path, supports[1]))
              = PathLength2(island.path) * supports[1].den

C6_Witness ==
    /\ pc = "done" /\ IsOnePoint /\ branch = "one_center"
    /\ PathLength2(island.path) % 2 = 1

\* the first position from the start of path p where the width equals width:
\* its exact arc length arcnum / den in half units
FirstCrossing(p, width) ==
    LET ks == {k \in 1..Len(p.len2) : width <= max_width(p, k)}
    IN  IF ks = {} THEN [found |-> FALSE, arcnum |-> 0, den |-> 1]
        ELSE LET k == CHOOSE j \in ks : \A i \in ks : j <= i
                 pos == get_position_with_width(p, k, width)
             IN  [found |-> TRUE,
                  arcnum |-> NodeX2(p, k) * pos.den + p.len2[k] * pos.num,
                  den |-> pos.den]

\* the side point s, at arc length arcnum / s.den (half units) from the start of p, is
\* at the first crossing of the width when that lies within the cap, else at the cap
SidePointPlaced(p, s, arcnum, cfg) ==
    LET cap == SideMaxDistance(p, cfg)
        c == FirstCrossing(p, 2 * cfg.head_radius)
        reached == c.found /\ c.arcnum <= 2 * cap * c.den
    IN  /\ arcnum <= 2 * cap * s.den
        /\ reached => arcnum * c.den = c.arcnum * s.den
        /\ ~reached => arcnum = 2 * cap * s.den

\* C7: the two-point case returns two points of type two_points, one per end of the
\* longest path, each at the first position from its end where the width equals
\* 2 * head_radius, never farther from that end than
\* min(length * ratio, maximal_distance_from_outline), and exactly at that cap when
\* the width is not reached within it
C7_TwoSidePoints ==
    (pc = "done" /\ IsTwoPoints) =>
        /\ Len(supports) = 2
        /\ \A i \in 1..2 : supports[i].type = "two_points" /\ ~can_move(supports[i])
        /\ SidePointPlaced(island.path, supports[1],
                           ArcFromStart(island.path, supports[1]), config)
        /\ SidePointPlaced(ReversePath(island.path), supports[2],
                           PathLength2(island.path) * supports[2].den
                               - ArcFromStart(island.path, supports[2]), config)

\* C8: at most two sampled points are discarded for the two side points of type
\* two_points_backup; three or more sampled points are aligned and returned
C8_BackupOrAligned ==
    (pc = "done" /\ branch \in {"two_points_backup", "aligned"}) =>
        /\ Len(sampled) <= 2 =>
              /\ branch = "two_points_backup"
              /\ Len(supports) = 2
              /\ \A i \in 1..2 :
                    /\ supports[i].type = "two_points_backup"
                    /\ supports[i].point
                          = create_side_points(island.path, config, "two_points")[i].point
              /\ sweeps = 0
        /\ Len(sampled) >= 3 =>
              /\ branch = "aligned"
              /\ Len(supports) = Len(sampled)
              /\ \A i \in 1..Len(sampled) : supports[i].type = sampled[i].type

C8_Witness ==
    /\ pc = "done" /\ branch = "two_points_backup" /\ Len(sampled) = 2

\* C9: align_samples executes min(count_iteration, k) sweeps, k being the first sweep
\* with max_move < minimal_move (none: count_iteration sweeps)
C9_SweepCount ==
    (pc = "done" /\ branch = "aligned") =>
        sweeps = IF first_small # 0 THEN Min(config.count_iteration, first_small)
                 ELSE config.count_iteration

\* C10: align_samples never adds, removes or reorders support points, never changes
\* a type tag or a movement kind, and a point that cannot move keeps its position,
\* also when it takes part in a duplicate resolution
C10_AlignmentFrame ==
    /\ Len(supports) = Len(sampled)
    /\ \A i \in 1..Len(sampled) :
          /\ supports[i].type = sampled[i].type
          /\ supports[i].kind = sampled[i].kind
          /\ ~can_move(sampled[i]) => supports[i].point = sampled[i].point

C10_Witness ==
    /\ pc = "done" /\ sweeps >= 1
    /\ \E i \in dup_fixed : ~can_move(supports[i])
    /\ \E j \in 1..Len(supports) : supports[j].point # sampled[j].point

-----------------------------------------------------------------------------
(* load_exported_data (libseqarrange/src/seq_utilities.cpp): the reader of   *)
(* an exported dump.  A line is the record [key, a, b]: its keyword and the  *)
(* numbers that follow it.                                                   *)

MaxLines == 4       \* lines of an exported file

\* the sampler is not running
SamplerIdle ==
    /\ supports = <<>> /\ branch = "none" /\ sampled = <<>> /\ count_iteration = 0
    /\ max_move = 0 /\ sweeps = 0 /\ first_small = 0 /\ prev_position = <<>>
    /\ dup_fixed = {} /\ address = <<>> /\ first_output = <<>>

SamplerVars == <<supports, branch, sampled, count_iteration, max_move, sweeps,
                 first_small, prev_position, dup_fixed, address, first_output>>

ExportedRecords ==
    { [key |-> "OBJECT_ID", a |-> 1, b |-> 0],
      [key |-> "OBJECT_ID", a |-> 2, b |-> 0],
      [key |-> "TOTAL_HEIGHT", a |-> 5, b |-> 0],
      [key |-> "POLYGON_AT_HEIGHT", a |-> 3, b |-> 0],
      [key |-> "POINT", a |-> 1, b |-> 2] }

ExportedFiles == UNION { [1..n -> ExportedRecords] : n \in 1..MaxLines }

\* objects_to_print.back() / pgns_at_height.back() exist
HasBackObject(objects) == objects # <<>>
HasBackPolygon(objects) ==
    HasBackObject(objects) /\ objects[Len(objects)].pgns_at_height # <<>>

\* the body of the while loop for one line whose target exists
ApplyRecord(objects, line) ==
    LET n == Len(objects)
    IN  CASE line.key = "OBJECT_ID" ->
                Append(objects, [id |-> line.a, total_height |-> 0, pgns_at_height |-> <<>>])
          [] line.key = "TOTAL_HEIGHT" ->
                [objects EXCEPT ![n].total_height = line.a]
          [] line.key = "POLYGON_AT_HEIGHT" ->
                [objects EXCEPT ![n].pgns_at_height =
                                     Append(@, [height |-> line.a, points |-> <<>>])]
          [] line.key = "POINT" ->
                [objects EXCEPT ![n].pgns_at_height[Len(objects[n].pgns_at_height)].points =
                                     Append(@, <<line.a, line.b>>)]

\* the object or polygon the line is applied to exists
RecordHasTarget(objects, line) ==
    CASE line.key = "OBJECT_ID" -> TRUE
      [] line.key = "POINT" -> HasBackPolygon(objects)
      [] OTHER -> HasBackObject(objects)

InitLoad ==
    /\ in_lines \in ExportedFiles
    /\ objects_to_print = <<>>
    /\ pc = "getline"
    /\ island = <<>> /\ config = <<>>
    /\ SamplerIdle /\ SegIdle

\* std::getline and the four tests of the loop body.  back() of an empty vector is
\* undefined behaviour: the run leaves the defined executions
ReadLine ==
    /\ pc = "getline"
    /\ in_lines # <<>>
    /\ LET line == Head(in_lines)
       IN  IF RecordHasTarget(objects_to_print, line)
           THEN /\ objects_to_print' = ApplyRecord(objects_to_print, line)
                /\ pc' = "getline"
           ELSE /\ objects_to_print' = objects_to_print
                /\ pc' = "undefined"
    /\ in_lines' = Tail(in_lines)
    /\ observed' = Append(observed, Head(in_lines))
    /\ UNCHANGED <<island, config, SamplerVars, island_parts, item, next_item,
                   neighbor_index, process_items, part_lengths>>

\* the stream is at its end: the objects are returned
EndOfFile ==
    /\ pc = "getline"
    /\ in_lines = <<>>
    /\ pc' = "returned"
    /\ UNCHANGED <<island, config, SamplerVars, SegVars, LoadVars>>

NextLoad ==
    \/ ReadLine
    \/ EndOfFile

SpecLoad == InitLoad /\ [][NextLoad]_vars

\* the ids of the OBJECT_ID records among the lines read so far
RECURSIVE OpenedIds(_)
OpenedIds(lines) ==
    IF lines = <<>> THEN <<>>
    ELSE (IF Head(lines).key = "OBJECT_ID" THEN <<Head(lines).a>> ELSE <<>>)
             \o OpenedIds(Tail(lines))

\* C14: the records are applied in file order (one object per OBJECT_ID record, in
\* record order) and no record is ever applied to an object or a polygon that does
\* not exist, for every sequence of records
C14_RecordsApplied ==
    pc \in {"getline", "returned", "undefined"} =>
        /\ pc # "undefined"
        /\ [i \in 1..Len(objects_to_print) |-> objects_to_print[i].id] = OpenedIds(observed)

-----------------------------------------------------------------------------
(* Thin/thick segmentation: separate_thin_thick and its post-processing.      *)
(* The skeleton is a graph G: G.w[v] is the island width at node v,           *)
(* G.nb[n] = [src, node, len2, twin] is neighbor n (the directed edge         *)
(* src -> node) and G.out[v] lists the neighbors of node v in the order of    *)
(* Node::neighbors.  A Position is [n, num, den]: ratio num/den on neighbor   *)
(* n.  Island parts are numbered from 0 as in the program: part i is          *)
(* parts[i + 1].                                                              *)

\* the skeleton with the given node widths and edges [a, b, len2]; edge k is the
\* neighbor 2k - 1 of a and the neighbor 2k of b
MakeGraph(w, edges) ==
    [w |-> w,
     nb |-> [i \in 1..(2 * Len(edges)) |->
                LET e == edges[(i + 1) \div 2]
                IN  IF i % 2 = 1
                    THEN [src |-> e.a, node |-> e.b, len2 |-> e.len2, twin |-> i + 1]
                    ELSE [src |-> e.b, node |-> e.a, len2 |-> e.len2, twin |-> i - 1]],
     out |-> [v \in 1..Len(w) |->
                 SelectSeq([i \in 1..(2 * Len(edges)) |-> i],
                           LAMBDA i : (IF i % 2 = 1 THEN edges[(i + 1) \div 2].a
                                       ELSE edges[(i + 1) \div 2].b) = v)]]

\* neighbor n seen as a path of one edge: its length and the widths at its two nodes
EdgePath(G, n) ==
    [len2 |-> <<G.nb[n].len2>>, w |-> <<G.w[G.nb[n].src], G.w[G.nb[n].node]>>]

\* VoronoiGraphUtils::get_twin
get_twin(G, n) == G.nb[n].twin

\* Position::calc_distance of a position on neighbor n
PositionDistance(G, pos) == calc_distance(G.nb[pos.n].len2, pos.num, pos.den)

\* every way on from the target node of neighbor n reaches the contour within
\* budget2 half units
RECURSIVE EndsWithin(_, _, _)
EndsWithin(G, n, budget2) ==
    \A i \in 1..Len(G.out[G.nb[n].node]) :
        LET m == G.out[G.nb[n].node][i]
        IN  m # G.nb[n].twin =>
                /\ G.nb[m].len2 <= budget2
                /\ EndsWithin(G, m, budget2 - G.nb[m].len2)

\* VoronoiGraphUtils::ends_in_distanace: the skeleton ends within max_distance of
\* the position, in the direction of its neighbor
ends_in_distanace(G, pos, max_distance) ==
    LET rest2 == 2 * max_distance
                    - (G.nb[pos.n].len2 * (pos.den - pos.num)) \div pos.den
    IN  rest2 >= 0 /\ EndsWithin(G, pos.n, rest2)

Part(parts, i) == parts[i + 1]

IslandPart(type, changes, sum_lengths) ==
    [type |-> type, changes |-> changes, sum_lengths |-> sum_lengths]

\* the position on neighbor n where the island has the width limit
RatioPosition(n, w) == [n |-> n, num |-> w.num, den |-> w.den]

PositionWithWidth(G, n, limit) ==
    RatioPosition(n, get_position_with_width(EdgePath(G, n), 1, limit))

\* Position twin_position(twin, 1. - position.ratio)
TwinPosition(G, position) ==
    [n |-> get_twin(G, position.n), num |-> position.den - position.num,
     den |-> position.den]

\* what a call of add_part was given, found and did
AddPartResult(after, index, added, parts, part_index, to_type, limit, position, near_end, near_start) ==
    [parts |-> after, index |-> index,
     call |-> [part_index |-> part_index, to_type |-> to_type, limit |-> limit,
               position |-> position, near_end |-> near_end, near_start |-> near_start,
               before |-> parts, after |-> after, added |-> added, index |-> index]]

\* the change pushed to part part_index and the new part pushed to island_parts
AddedPart(parts, part_index, to_type, G, position, twin_position) ==
    Append([parts EXCEPT
               ![part_index + 1] =
                   IslandPart(Part(parts, part_index).type,
                              Append(Part(parts, part_index).changes,
                                     [position |-> position, part_index |-> Len(parts)]),
                              Part(parts, part_index).sum_lengths
                                  + PositionDistance(G, position))],
           IslandPart(to_type,
                      << [position |-> twin_position, part_index |-> part_index] >>,
                      PositionDistance(G, twin_position)))

\* a part is added wherever the position lies
AddPartAlways(parts, part_index, to_type, limit, G, position, twin_position, near_end, near_start) ==
    AddPartResult(AddedPart(parts, part_index, to_type, G, position, twin_position),
                  Len(parts), TRUE, parts, part_index, to_type, limit, position,
                  near_end, near_start)

\* add_part once the position is known to lie near the end (near_end) or the first
\* part near the start (near_start) of the skeleton
AddPartAt(parts, part_index, to_type, limit, G, position, twin_position, near_end, near_start) ==
    IF near_end
    THEN AddPartResult(parts, part_index, FALSE, parts, part_index, to_type, limit,
                       position, near_end, near_start)
    ELSE IF Len(parts) = 1 /\ near_start
    THEN AddPartResult([parts EXCEPT ![1].type = to_type], part_index, FALSE, parts,
                       part_index, to_type, limit, position, near_end, near_start)
    ELSE AddPartResult(AddedPart(parts, part_index, to_type, G, position, twin_position),
                       Len(parts), TRUE, parts, part_index, to_type, limit, position,
                       near_end, near_start)

AddPartOn(parts, part_index, to_type, limit, G, cfg, position, twin_position) ==
    AddPartAt(parts, part_index, to_type, limit, G, position, twin_position,
              ends_in_distanace(G, position, cfg.min_part_length),
              ends_in_distanace(G, twin_position, cfg.min_part_length))

\* add_part: the parts after the call, the index returned and what the call did
add_part(parts, part_index, to_type, n, limit, G, cfg) ==
    AddPartOn(parts, part_index, to_type, limit, G, cfg,
              PositionWithWidth(G, n, limit), TwinPosition(G, PositionWithWidth(G, n, limit)))

\* the result of detect_interface after one call of add_part
FirstCall(r) == [parts |-> r.parts, index |-> r.index, calls |-> <<r.call>>]

\* the result of detect_interface after a second call of add_part
SecondCall(first, r) ==
    [parts |-> r.parts, index |-> r.index, calls |-> Append(first.calls, r.call)]

\* no second call of add_part
AddNoSecondPart(first, to_type, n, limit, G, cfg) == first

\* the second add_part of detect_interface starts from the part the first returned
AddSecondPart(first, to_type, n, limit, G, cfg) ==
    SecondCall(first, add_part(first.parts, first.index, to_type, n, limit, G, cfg))

\* without new interface between island parts: the whole edge is added to the part
StillPart(parts, part_index, n, G) ==
    [parts |-> [parts EXCEPT ![part_index + 1].sum_lengths = @ + (G.nb[n].len2 \div 2)],
     index |-> part_index, calls |-> <<>>]

\* detect_interface: the parts after the call, the next part index and the calls of
\* add_part it made
detect_interface(parts, part_index, n, G, cfg) ==
    LET min == cfg.thick_min_width
        max == cfg.thin_max_width
        e == EdgePath(G, n)
        type == Part(parts, part_index).type
    IN  CASE type = "thin" ->
               IF max_width(e, 1) < min THEN StillPart(parts, part_index, n, G)
               ELSE IF max_width(e, 1) < max
               THEN FirstCall(add_part(parts, part_index, "middle", n, min, G, cfg))
               ELSE AddSecondPart(
                        FirstCall(add_part(parts, part_index, "middle", n, min, G, cfg)),
                        "thick", n, max, G, cfg)
          [] type = "middle" ->
               IF min_width(e, 1) < min
               THEN FirstCall(add_part(parts, part_index, "thin", n, min, G, cfg))
               ELSE IF max_width(e, 1) > max
               THEN FirstCall(add_part(parts, part_index, "thick", n, max, G, cfg))
               ELSE StillPart(parts, part_index, n, G)
          [] type = "thick" ->
               IF max_width(e, 1) > max THEN StillPart(parts, part_index, n, G)
               ELSE IF min_width(e, 1) > min
               THEN FirstCall(add_part(parts, part_index, "middle", n, max, G, cfg))
               ELSE AddSecondPart(
                        FirstCall(add_part(parts, part_index, "middle", n, max, G, cfg)),
                        "thin", n, min, G, cfg)

\* std::remove_if on the changes that name part i
WithoutChangesTo(changes, i) == SelectSeq(changes, LAMBDA ch : ch.part_index # i)

\* part indices left as they were
FixChangeIndicesNever(parts, index, remove_index) == parts

\* fix indices inside island part changes after the part remove_index was erased
FixChangeIndices(parts, index, remove_index) ==
    [k \in 1..Len(parts) |->
        [parts[k] EXCEPT !.changes =
            [j \in 1..Len(parts[k].changes) |->
                LET ch == parts[k].changes[j]
                IN  [ch EXCEPT !.part_index =
                        IF ch.part_index = remove_index THEN index
                        ELSE IF ch.part_index > remove_index THEN ch.part_index - 1
                        ELSE ch.part_index]]]]

\* merge_island_parts: part remove_index is merged into part index and erased
merge_island_parts(parts, index, remove_index) ==
    LET changes == WithoutChangesTo(Part(parts, index).changes, remove_index)
        remove_changes == WithoutChangesTo(Part(parts, remove_index).changes, index)
        merged == [parts EXCEPT ![index + 1].changes = changes \o remove_changes]
        erased == RemoveAt(merged, remove_index + 1)
    IN  FixChangeIndices(erased, index, remove_index)

\* fix of the part index of a queued ProcessItem
FixProcessIndex(p, index, remove_index) ==
    [p EXCEPT !.i = IF p.i = remove_index THEN index
                    ELSE IF p.i > remove_index THEN p.i - 1
                    ELSE p.i]

\* fix index for current item: if (item.i > remove_index) --item.i
FixItemIndex(it, index, remove_index) ==
    [it EXCEPT !.i = IF it.i > remove_index THEN it.i - 1 ELSE it.i]

\* merge_parts_and_fix_process
merge_parts_and_fix_process(parts, it, index0, remove_index0, items) ==
    IF remove_index0 = index0
    THEN [parts |-> parts, item |-> it, process |-> items]
    ELSE LET index == Min(index0, remove_index0)
             remove_index == Max(index0, remove_index0)
             summed == [parts EXCEPT ![index + 1].sum_lengths =
                                         @ + Part(parts, remove_index).sum_lengths]
         IN  [parts |-> merge_island_parts(summed, index, remove_index),
              item |-> FixItemIndex(it, index, remove_index),
              process |-> [k \in 1..Len(items) |->
                              FixProcessIndex(items[k], index, remove_index)]]

\* ProcessItem without a node (node == nullptr)
NoItem == [prev_node |-> 0, node |-> 0, i |-> SizeTMax]

\* std::find_if(process.begin(), process.end(), is_oposit_item): 0 when not found
FindOpposite(items, next) ==
    LET ks == {k \in 1..Len(items) :
                  items[k].node = next.prev_node /\ items[k].prev_node = next.node}
    IN  IF ks = {} THEN 0 ELSE CHOOSE k \in ks : \A j \in ks : k <= j

\* skeletons of the segmentation: widths at the inner nodes (0 on the contour) and
\* edge lengths in half units
SegWidths == {4, 7, 8, 10}
SegLengths == {8, 16}

\* a chain of nodes from one contour node to another
Chain(ws, ls) ==
    MakeGraph(<<0>> \o ws \o <<0>>,
              [k \in 1..Len(ls) |-> [a |-> k, b |-> k + 1, len2 |-> ls[k]]])

SegChains ==
    UNION { { Chain(ws, ls) : ws \in [1..n -> SegWidths], ls \in [1..(n + 1) -> SegLengths] } :
              n \in 1..3 }

\* a branching skeleton: contour node 1, junction 2, branch 3 to the contour node 4,
\* branch 5 to the contour node 6
Branching(ws) ==
    MakeGraph(<<0, ws[1], ws[2], 0, ws[3], 0>>,
              << [a |-> 1, b |-> 2, len2 |-> 16], [a |-> 2, b |-> 3, len2 |-> 16],
                 [a |-> 2, b |-> 5, len2 |-> 16], [a |-> 3, b |-> 4, len2 |-> 8],
                 [a |-> 5, b |-> 6, len2 |-> 8] >>)

\* the skeleton of an island with a hole: contour node 1, ring 2 - 3 - 4 - 5 - 2 and
\* a tail from ring node 3 to the contour node 6
Ring(ws) ==
    MakeGraph(<<0, ws[1], ws[2], ws[3], ws[4], 0>>,
              << [a |-> 1, b |-> 2, len2 |-> 16], [a |-> 2, b |-> 3, len2 |-> 16],
                 [a |-> 2, b |-> 5, len2 |-> 16], [a |-> 5, b |-> 4, len2 |-> 16],
                 [a |-> 4, b |-> 3, len2 |-> 16], [a |-> 3, b |-> 6, len2 |-> 16] >>)

SegGraphs ==
    SegChains \cup { Branching(ws) : ws \in [1..3 -> SegWidths] }
              \cup { Ring(ws) : ws \in [1..4 -> SegWidths] }

SegConfigs ==
    [ thick_min_width : {6}, thin_max_width : {8}, min_part_length : {2, 4} ]

InitSeg ==
    /\ island \in { [graph |-> G] : G \in SegGraphs }
    /\ config \in SegConfigs
    /\ pc = "traverse"
    /\ island_parts = << IslandPart("thin", <<>>, 0) >>
    /\ item = [prev_node |-> 0, node |-> 1, i |-> 0]
    /\ next_item = NoItem
    /\ neighbor_index = 1
    /\ process_items = <<>>
    /\ part_lengths = <<>>
    /\ observed = [step |-> "start"]
    /\ SamplerIdle /\ LoadIdle

\* if (next_item.node != nullptr) process.push_back(next_item)
QueuedItems ==
    IF next_item.node # 0 THEN Append(process_items, next_item) ELSE process_items

\* what the traversal saw on neighbor n
SeenInterface(n, d, k) ==
    [step |-> "detect_interface", n |-> n, type |-> Part(island_parts, item.i).type,
     part_index |-> item.i, before |-> island_parts, after |-> d.parts,
     next_part_index |-> d.index, calls |-> d.calls, merged |-> k # 0]

\* solve loop back: the parts of the found queued item and of the new item are merged
\* and the queued item is erased
LoopBack(n, queued, d, next, k, m) ==
    /\ island_parts' = m.parts
    /\ item' = m.item
    /\ process_items' = RemoveAt(m.process, k)
    /\ next_item' = [next EXCEPT !.node = 0]
    /\ observed' = SeenInterface(n, d, k) @@
          [index |-> Min(queued[k].i, next.i),
           remove_index |-> Max(queued[k].i, next.i),
           parts_before |-> d.parts, item_before |-> item,
           process_before |-> queued, found |-> k]
    /\ UNCHANGED pc

\* the rest of the loop body once the next item is known: k is the place of the
\* opposite item in the queue, 0 when there is none
PreparedItem(n, queued, d, next, k) ==
    IF k = 0
    THEN /\ island_parts' = d.parts
         /\ next_item' = next
         /\ process_items' = queued
         /\ observed' = SeenInterface(n, d, k)
         /\ UNCHANGED <<pc, item>>
    ELSE LoopBack(n, queued, d, next, k,
                  merge_parts_and_fix_process(d.parts, item, queued[k].i, next.i, queued))

NextItemTo(G, n, d) == [prev_node |-> item.node, node |-> G.nb[n].node, i |-> d.index]

\* the rest of the loop body after detect_interface returned d
DetectedInterface(G, n, queued, d) ==
    PreparedItem(n, queued, d, NextItemTo(G, n, d),
                 FindOpposite(queued, NextItemTo(G, n, d)))

\* one neighbor of item.node in the for loop of separate_thin_thick.  An item whose
\* part index is not below island_parts.size() makes detect_interface read outside
\* the vector: undefined behaviour, the run leaves the defined executions
TraverseNeighbor ==
    /\ pc = "traverse"
    /\ neighbor_index <= Len(island.graph.out[item.node])
    /\ LET G == island.graph
           n == G.out[item.node][neighbor_index]
       IN  IF G.nb[n].node = item.prev_node
           THEN /\ UNCHANGED <<pc, island_parts, item, next_item, process_items>>
                /\ observed' = [step |-> "already_done"]
           ELSE IF item.i >= Len(island_parts)
           THEN /\ pc' = "undefined"
                /\ UNCHANGED <<island_parts, item, next_item, process_items>>
                /\ observed' = [step |-> "out_of_range"]
           ELSE DetectedInterface(G, n, QueuedItems,
                                  detect_interface(island_parts, item.i, n, G, config))
    /\ neighbor_index' = neighbor_index + 1
    /\ UNCHANGED <<island, config, part_lengths, SamplerVars, LoadVars>>

\* Select next node to process: the prepared item, else the back of the queue, else
\* the traversal is over
SelectNext ==
    /\ pc = "traverse"
    /\ neighbor_index > Len(island.graph.out[item.node])
    /\ IF next_item.node # 0
       THEN /\ item' = next_item
            /\ UNCHANGED <<process_items, pc>>
       ELSE IF process_items = <<>>
       THEN /\ pc' = "merge_middle"
            /\ UNCHANGED <<item, process_items>>
       ELSE /\ item' = process_items[Len(process_items)]
            /\ process_items' = SubSeq(process_items, 1, Len(process_items) - 1)
            /\ UNCHANGED pc
    /\ next_item' = NoItem
    /\ neighbor_index' = 1
    /\ observed' = [step |-> "select_next"]
    /\ UNCHANGED <<island, config, island_parts, part_lengths, SamplerVars, LoadVars>>

\* the index, after the merge of part j into part i < j, of the part that had index x
IndexAfterMerge(x, i, j) == IF x = j THEN i ELSE IF x > j THEN x - 1 ELSE x

\* the traversal has just closed a cycle and merged two different parts
CycleMerged ==
    /\ pc \in {"traverse", "undefined"}
    /\ observed.step = "detect_interface"
    /\ observed.merged
    /\ observed.index # observed.remove_index

\* C15: when the traversal closes a cycle and merges parts i < j, island_parts shrinks
\* by one and every live reference denotes the same part as before the merge and is
\* below island_parts.size(): every change.part_index, the part index of every queued
\* ProcessItem and the part index of the item being processed
C15_MergeFixesReferences ==
    CycleMerged =>
        LET i == observed.index
            j == observed.remove_index
            before == observed.parts_before
            rest == RemoveAt(observed.process_before, observed.found)
        IN  /\ Len(island_parts) = Len(before) - 1
            /\ \A k \in 1..Len(island_parts) :
                  \A c \in 1..Len(island_parts[k].changes) :
                      island_parts[k].changes[c].part_index < Len(island_parts)
            /\ Len(process_items) = Len(rest)
            /\ \A k \in 1..Len(rest) :
                  /\ process_items[k].i = IndexAfterMerge(rest[k].i, i, j)
                  /\ process_items[k].i < Len(island_parts)
            /\ item.i = IndexAfterMerge(observed.item_before.i, i, j)
            /\ item.i < Len(island_parts)

\* the last of the changes that lead to a part of the greatest sum_lengths
MaxChangeLast(parts, changes) ==
    CHOOSE k \in 1..Len(changes) :
        /\ \A j \in 1..Len(changes) :
              Part(parts, changes[j].part_index).sum_lengths
                  <= Part(parts, changes[k].part_index).sum_lengths
        /\ \A j \in (k + 1)..Len(changes) :
              Part(parts, changes[j].part_index).sum_lengths
                  < Part(parts, changes[k].part_index).sum_lengths

\* std::max_element over the changes of a part by the sum_lengths of the part each
\* change leads to: the first of the greatest
MaxChange(parts, changes) ==
    CHOOSE k \in 1..Len(changes) :
        /\ \A j \in 1..Len(changes) :
              Part(parts, changes[j].part_index).sum_lengths
                  <= Part(parts, changes[k].part_index).sum_lengths
        /\ \A j \in 1..(k - 1) :
              Part(parts, changes[j].part_index).sum_lengths
                  < Part(parts, changes[k].part_index).sum_lengths

\* the for loop of merge_middle_parts_into_biggest_neighbor from index on: the parts
\* left and the merges made, each with the parts it started from
RECURSIVE MergeMiddleLoop(_, _, _)
MergeMiddleLoop(parts, index, merges) ==
    IF index >= Len(parts) THEN [parts |-> parts, merges |-> merges]
    ELSE LET island_part == Part(parts, index)
         IN  IF island_part.type # "middle" \/ island_part.changes = <<>>
             THEN MergeMiddleLoop(parts, index + 1, merges)
             ELSE LET max_change ==
                          island_part.changes[MaxChange(parts, island_part.changes)]
                      typed == [parts EXCEPT ![index + 1].type =
                                                 Part(parts, max_change.part_index).type]
                      merged_index == Min(index, max_change.part_index)
                      remove_index == Max(index, max_change.part_index)
                      merged == merge_island_parts(typed, merged_index, remove_index)
                  IN  MergeMiddleLoop(merged, index,
                                      Append(merges, [index |-> index,
                                                      into |-> max_change.part_index,
                                                      before |-> parts, after |-> merged]))

merge_middle_parts_into_biggest_neighbor(parts) == MergeMiddleLoop(parts, 0, <<>>)

\* a search that finds no part of the same type
FindSameTypeNever(parts, island_part_index) == 0

\* std::find_if over the changes of a part for a part of the same type: 0 when none
FindSameType(parts, island_part_index) ==
    LET island_part == Part(parts, island_part_index)
        ks == {k \in 1..Len(island_part.changes) :
                  Part(parts, island_part.changes[k].part_index).type = island_part.type}
    IN  IF ks = {} THEN 0 ELSE CHOOSE k \in ks : \A j \in ks : k <= j

\* the loops of merge_same_neighbor_type_parts from island_part_index on
RECURSIVE MergeSameLoop(_, _)
MergeSameLoop(parts, island_part_index) ==
    IF island_part_index >= Len(parts) THEN parts
    ELSE LET k == FindSameType(parts, island_part_index)
         IN  IF k = 0 THEN MergeSameLoop(parts, island_part_index + 1)
             ELSE MergeSameLoop(
                      merge_island_parts(parts, island_part_index,
                          Part(parts, island_part_index).changes[k].part_index),
                      island_part_index)

merge_same_neighbor_type_parts(parts) == MergeSameLoop(parts, 0)

\* merge_middle_parts_into_biggest_neighbor(island_parts)
MergeMiddle ==
    /\ pc = "merge_middle"
    /\ LET r == merge_middle_parts_into_biggest_neighbor(island_parts)
       IN  /\ island_parts' = r.parts
           /\ observed' = [step |-> "merge_middle", merges |-> r.merges]
           /\ pc' = IF Len(r.parts) # 1 THEN "merge_same" ELSE "convert"
    /\ UNCHANGED <<island, config, item, next_item, neighbor_index, process_items,
                   part_lengths, SamplerVars, LoadVars>>

\* if (island_parts.size() != 1) merge_same_neighbor_type_parts(island_parts)
MergeSame ==
    /\ pc = "merge_same"
    /\ LET parts == merge_same_neighbor_type_parts(island_parts)
       IN  /\ island_parts' = parts
           /\ pc' = IF Len(parts) # 1 THEN "merge_short" ELSE "convert"
    /\ observed' = [step |-> "merge_same", before |-> island_parts]
    /\ UNCHANGED <<island, config, item, next_item, neighbor_index, process_items,
                   part_lengths, SamplerVars, LoadVars>>

\* -------- merge_short_parts: the longest distance inside a part --------

\* std::numeric_limits<coord_t>::max(), the distance of a node no change has reached
NoDistance == 2147483647

\* the index that stands for no node distance (size_t(-1) in the program)
NoIndex == -1

\* the node inside the part next to a change: the source node of its neighbor
ChangeNode(G, change) == G.nb[get_twin(G, change.position.n)].node

\* index (from 0) of the node distance of a node, NoIndex when there is none
FindNodeDistance(node_distances, node) ==
    IF \E k \in 1..Len(node_distances) : node_distances[k].node = node
    THEN (CHOOSE k \in 1..Len(node_distances) : node_distances[k].node = node) - 1
    ELSE NoIndex

\* the first loop of get_longest_distance: one node distance for each node next to a
\* change, holding the distance of that change to the node
RECURSIVE InitNodeDistances(_, _, _, _)
InitNodeDistances(G, changes, change_index, node_distances) ==
    IF change_index > Len(changes) THEN node_distances
    ELSE LET change == changes[change_index]
             node == ChangeNode(G, change)
             distance == PositionDistance(G, change.position)
             found == FindNodeDistance(node_distances, node)
         IN  IF found # NoIndex
             THEN InitNodeDistances(G, changes, change_index + 1,
                      [node_distances EXCEPT ![found + 1].shortest_distances[change_index]
                                                 = distance])
             ELSE InitNodeDistances(G, changes, change_index + 1,
                      Append(node_distances,
                             [node |-> node,
                              shortest_distances |->
                                  [c \in 1..Len(changes) |->
                                      IF c = change_index THEN distance ELSE NoDistance]]))

exist_part_change_for_neighbor(changes, neighbor) ==
    \E c \in 1..Len(changes) : changes[c].position.n = neighbor

\* the distances of the current node carried over the neighbor
ExtendedDistances(distances, length) ==
    [c \in 1..Len(distances) |->
        IF distances[c] # NoDistance THEN distances[c] + length ELSE NoDistance]

\* the distances of a known node lowered by those that come over the neighbor
UpdatedDistances(current, known, length) ==
    [c \in 1..Len(known) |->
        IF current[c] # NoDistance /\ known[c] > current[c] + length
        THEN current[c] + length ELSE known[c]]

\* the for loop over the neighbors of the current node, from the k-th neighbor on;
\* st holds node_distances, process, next_distance_index and prev_neighbor
RECURSIVE PropagateNeighbors(_, _, _, _, _)
PropagateNeighbors(G, changes, st, current, k) ==
    LET node == st.node_distances[current + 1].node
    IN  IF k > Len(G.out[node]) THEN st
        ELSE LET neighbor == G.out[node][k]
                 length == G.nb[neighbor].len2 \div 2
                 found == FindNodeDistance(st.node_distances, G.nb[neighbor].node)
                 current_distances == st.node_distances[current + 1].shortest_distances
                 pushed == IF st.next_distance_index # NoIndex
                              /\ st.next_distance_index < Len(st.node_distances)
                           THEN Append(st.process, st.next_distance_index)
                           ELSE st.process
             IN  IF neighbor = st.prev_neighbor
                    \/ exist_part_change_for_neighbor(changes, neighbor)
                 THEN PropagateNeighbors(G, changes, st, current, k + 1)
                 ELSE IF found = NoIndex
                 THEN PropagateNeighbors(G, changes,
                          [node_distances |->
                               Append(st.node_distances,
                                      [node |-> G.nb[neighbor].node,
                                       shortest_distances |->
                                           ExtendedDistances(current_distances, length)]),
                           process |-> pushed,
                           next_distance_index |-> Len(st.node_distances),
                           prev_neighbor |-> get_twin(G, neighbor)],
                          current, k + 1)
                 ELSE LET known == st.node_distances[found + 1].shortest_distances
                          updated == UpdatedDistances(current_distances, known, length)
                          lowered == [st EXCEPT
                                         !.node_distances[found + 1].shortest_distances
                                              = updated]
                      IN  IF updated = known
                          THEN PropagateNeighbors(G, changes, st, current, k + 1)
                          ELSE IF \E q \in 1..Len(st.process) : st.process[q] = found
                          THEN PropagateNeighbors(G, changes, lowered, current, k + 1)
                          ELSE PropagateNeighbors(G, changes,
                                   [lowered EXCEPT !.process = pushed,
                                                   !.next_distance_index = found,
                                                   !.prev_neighbor = get_twin(G, neighbor)],
                                   current, k + 1)

\* the while loop that propagates the distances into the neighbors: the node
\* distances when no node is left to process
RECURSIVE PropagateDistances(_, _, _)
PropagateDistances(G, changes, st) ==
    LET current == st.next_distance_index
        after == PropagateNeighbors(G, changes,
                                    [st EXCEPT !.next_distance_index = NoIndex],
                                    current, 1)
    IN  IF after.next_distance_index # NoIndex
        THEN PropagateDistances(G, changes, after)
        ELSE IF after.process = <<>> THEN after.node_distances
        ELSE PropagateDistances(G, changes,
                 [after EXCEPT !.next_distance_index = after.process[Len(after.process)],
                               !.process = SubSeq(after.process, 1, Len(after.process) - 1),
                               !.prev_neighbor = 0])

\* the greatest distance of a node from a change
FarestFromChange(node_distances) ==
    LET all == {node_distances[k].shortest_distances[c] :
                    k \in 1..Len(node_distances),
                    c \in 1..Len(node_distances[1].shortest_distances)}
    IN  IF \A d \in all : d <= 0 THEN 0
        ELSE CHOOSE d \in all : \A o \in all : o <= d

\* the pairs (i, j) of changes whose distance the last loop of get_longest_distance adds
ChangePairs(count) == {p \in (0..(count - 2)) \X (1..(count - 1)) : p[1] < p[2]}

\* the loop reads node_distances[i] of a change i that has no node distance of its own,
\* or adds to a distance that was never reached: behaviour the language leaves open
PairsUndefined(node_distances, count) ==
    \E p \in ChangePairs(count) :
        \/ p[1] >= Len(node_distances)
        \/ /\ p[1] < Len(node_distances)
           /\ \/ node_distances[p[1] + 1].shortest_distances[p[2] + 1] = NoDistance
              \/ node_distances[p[1] + 1].shortest_distances[p[1] + 1] = NoDistance

FarestBetweenChanges(node_distances, count) ==
    LET sums == {node_distances[p[1] + 1].shortest_distances[p[2] + 1]
                     + node_distances[p[1] + 1].shortest_distances[p[1] + 1] :
                     p \in ChangePairs(count)}
    IN  IF sums = {} THEN 0 ELSE CHOOSE d \in sums : \A o \in sums : o <= d

\* get_longest_distance without center: the length of a part, as the longest distance
\* between two of its changes or from a change to a node of the part; undefined is set
\* when the program reads outside a vector or overflows
get_longest_distance(G, changes) ==
    IF changes = <<>> THEN [undefined |-> TRUE, distance |-> 0]
    ELSE LET front == changes[1].position
             back == changes[Len(changes)].position
             front_twin == get_twin(G, front.n)
         IN  IF Len(changes) = 2 /\ front_twin = back.n
             THEN [undefined |-> FALSE,
                   distance |->
                       TruncDiv(G.nb[front.n].len2
                                    * (front.den * back.den - front.num * back.den
                                                  - back.num * front.den),
                                2 * front.den * back.den)]
             ELSE LET node_distances ==
                          PropagateDistances(G, changes,
                              [node_distances |-> InitNodeDistances(G, changes, 1, <<>>),
                               process |-> [q \in 1..(Len(InitNodeDistances(G, changes, 1, <<>>)) - 1)
                                               |-> q],
                               next_distance_index |-> 0,
                               prev_neighbor |-> front_twin])
                  IN  IF PairsUndefined(node_distances, Len(changes))
                      THEN [undefined |-> TRUE, distance |-> 0]
                      ELSE [undefined |-> FALSE,
                            distance |-> Max(FarestFromChange(node_distances),
                                             FarestBetweenChanges(node_distances,
                                                                  Len(changes)))]

\* -------- merge_short_parts: merge of a short part with its neighbors --------

\* std::sort of a vector of part indices
RECURSIVE SortIndices(_)
SortIndices(indices) ==
    IF indices = <<>> THEN <<>>
    ELSE LET first == CHOOSE q \in 1..Len(indices) :
                          \A o \in 1..Len(indices) :
                              indices[q] < indices[o] \/ (indices[q] = indices[o] /\ q <= o)
         IN  <<indices[first]>> \o SortIndices(RemoveAt(indices, first))

\* std::unique of a sorted vector
RECURSIVE UniqueIndices(_)
UniqueIndices(indices) ==
    IF Len(indices) <= 1 THEN indices
    ELSE IF indices[1] = indices[2] THEN UniqueIndices(Tail(indices))
    ELSE <<indices[1]>> \o UniqueIndices(Tail(indices))

\* the changes of the neighbors of part index that do not lead back to it, in the
\* order of the changes of part index
RECURSIVE ModifiedChanges(_, _, _)
ModifiedChanges(parts, index, changes) ==
    IF changes = <<>> THEN <<>>
    ELSE SelectSeq(Part(parts, Head(changes).part_index).changes,
                   LAMBDA n_change : n_change.part_index # index)
             \o ModifiedChanges(parts, index, Tail(changes))

\* erase of the entries of a vector at the sorted indices, from the highest to the
\* lowest; undefined when an index is outside the vector
RECURSIVE EraseIndices(_, _)
EraseIndices(vector, remove_indices) ==
    IF remove_indices = <<>> THEN [undefined |-> FALSE, vector |-> vector]
    ELSE LET last == remove_indices[Len(remove_indices)]
         IN  IF last >= Len(vector) THEN [undefined |-> TRUE, vector |-> vector]
             ELSE EraseIndices(RemoveAt(vector, last + 1),
                               SubSeq(remove_indices, 1, Len(remove_indices) - 1))

\* the fix of a part index after the parts remove_indices were erased
FixRemovedIndex(part_index, remove_indices, modified_index) ==
    IF \E q \in 1..Len(remove_indices) : remove_indices[q] = part_index
    THEN modified_index
    ELSE part_index
            - Cardinality({q \in 1..Len(remove_indices) : remove_indices[q] < part_index})

\* merge_negihbor: part index and all its neighbors become one part of the type of the
\* neighbors, on the lowest of their indices; returns the index it was called with
merge_negihbor(parts, index) ==
    LET changes == Part(parts, index).changes
        modified_changes == ModifiedChanges(parts, index, changes)
        neighbors == UniqueIndices(SortIndices([q \in 1..Len(changes) |->
                                                    changes[q].part_index]))
        swap == neighbors[1] < index
        modified_index == IF swap THEN neighbors[1] ELSE index
        remove_indices == IF swap THEN SortIndices(<<index>> \o Tail(neighbors))
                          ELSE neighbors
        merged == [parts EXCEPT ![modified_index + 1] =
                        IslandPart(Part(parts, changes[1].part_index).type,
                                   modified_changes, 0)]
        erased == EraseIndices(merged, remove_indices)
    IN  IF changes = <<>>
        THEN [undefined |-> TRUE, parts |-> parts, index |-> index,
              remove_indices |-> <<>>, modified_index |-> index]
        ELSE [undefined |-> erased.undefined,
              parts |-> [q \in 1..Len(erased.vector) |->
                            [erased.vector[q] EXCEPT !.changes =
                                [c \in 1..Len(erased.vector[q].changes) |->
                                    [erased.vector[q].changes[c] EXCEPT !.part_index =
                                        FixRemovedIndex(@, remove_indices,
                                                        modified_index)]]]],
              index |-> index,
              remove_indices |-> remove_indices,
              modified_index |-> modified_index]

\* std::min_element: index (from 0) of the first smallest length
SmallestPartIndex(lengths) ==
    (CHOOSE q \in 1..Len(lengths) :
        /\ \A o \in 1..Len(lengths) : lengths[q] <= lengths[o]
        /\ \A o \in 1..(q - 1) : lengths[o] > lengths[q]) - 1

\* merge_short_parts up to its loop: the length of every part
MergeShortStart ==
    /\ pc = "merge_short"
    /\ LET lengths == [q \in 1..Len(island_parts) |->
                          get_longest_distance(island.graph, island_parts[q].changes)]
       IN  IF \E q \in 1..Len(lengths) : lengths[q].undefined
           THEN /\ pc' = "undefined"
                /\ UNCHANGED part_lengths
           ELSE /\ pc' = "merge_short_loop"
                /\ part_lengths' = [q \in 1..Len(lengths) |-> lengths[q].distance]
    /\ observed' = [step |-> "part_lengths", before |-> island_parts]
    /\ UNCHANGED <<island, config, island_parts, item, next_item, neighbor_index,
                   process_items, SamplerVars, LoadVars>>

\* one pass of the loop of merge_short_parts
MergeShortStep ==
    /\ pc = "merge_short_loop"
    /\ LET smallest_part_index == SmallestPartIndex(part_lengths)
           r == merge_negihbor(island_parts, smallest_part_index)
           length == get_longest_distance(island.graph, Part(r.parts, r.index).changes)
           erased == EraseIndices([part_lengths EXCEPT ![r.index + 1] = length.distance],
                                  r.remove_indices)
           merge == [step |-> "merge_negihbor", index |-> r.index,
                     modified_index |-> r.modified_index,
                     remove_indices |-> r.remove_indices,
                     before |-> island_parts, lengths |-> part_lengths]
       IN  IF part_lengths[smallest_part_index + 1] >= config.min_part_length
           THEN /\ pc' = "convert"
                /\ observed' = [step |-> "long_enough", lengths |-> part_lengths]
                /\ UNCHANGED <<island_parts, part_lengths>>
           ELSE IF r.undefined
           THEN /\ pc' = "undefined"
                /\ observed' = merge
                /\ UNCHANGED <<island_parts, part_lengths>>
           ELSE IF Len(r.parts) = 1
           THEN /\ pc' = "convert"
                /\ observed' = merge
                /\ island_parts' = r.parts
                /\ UNCHANGED part_lengths
           ELSE IF r.index >= Len(r.parts) \/ length.undefined \/ erased.undefined
           THEN /\ pc' = "undefined"
                /\ observed' = merge
                /\ island_parts' = r.parts
                /\ UNCHANGED part_lengths
           ELSE /\ pc' = "merge_short_loop"
                /\ observed' = merge
                /\ island_parts' = r.parts
                /\ part_lengths' = erased.vector
    /\ UNCHANGED <<island, config, item, next_item, neighbor_index, process_items,
                   SamplerVars, LoadVars>>

\* convert_island_parts_to_thin_thick: a sole part is a thin part when its type is
\* thin and a thick part otherwise; of several parts each thin one is a thin part and
\* each other one a thick part
Convert ==
    /\ pc = "convert"
    /\ pc' = "segmented"
    /\ observed' =
           [step |-> "convert",
            thin_parts |-> SelectSeq(island_parts, LAMBDA part : part.type = "thin"),
            thick_parts |-> SelectSeq(island_parts, LAMBDA part : part.type # "thin")]
    /\ UNCHANGED <<island, config, island_parts, item, next_item, neighbor_index,
                   process_items, part_lengths, SamplerVars, LoadVars>>

NextSeg ==
    \/ TraverseNeighbor
    \/ SelectNext
    \/ MergeMiddle
    \/ MergeSame
    \/ MergeShortStart
    \/ MergeShortStep
    \/ Convert

SpecSeg == InitSeg /\ [][NextSeg]_vars

\* every change of every part names a part of island_parts, other than its own, that
\* stores a change back
ChangesReciprocal(parts) ==
    \A a \in 0..(Len(parts) - 1) :
        \A c \in 1..Len(Part(parts, a).changes) :
            LET b == Part(parts, a).changes[c].part_index
            IN  /\ b < Len(parts)
                /\ b # a
                /\ \E d \in 1..Len(Part(parts, b).changes) :
                      Part(parts, b).changes[d].part_index = a

\* C11: after the post-processing of separate_thin_thick no island part has type
\* middle, also when one part remains
C11_NoMiddlePart ==
    pc \in {"convert", "segmented"} =>
        \A k \in 1..Len(island_parts) : island_parts[k].type # "middle"

\* C12: after the traversal and after every merge each change of part A names a valid
\* part B other than A and B stores a change that names A
C12_ChangesReciprocal ==
    pc \in {"traverse", "merge_middle", "merge_same", "merge_short", "merge_short_loop",
            "convert", "segmented"}
        => ChangesReciprocal(island_parts)

\* a loop of the skeleton was closed by a merge of two different parts and several
\* parts are left
C12_Witness ==
    /\ pc = "traverse" /\ observed.step = "detect_interface" /\ observed.merged
    /\ observed.index # observed.remove_index
    /\ Len(island_parts) >= 2
    /\ \E q \in 1..Len(island_parts) : Len(island_parts[q].changes) >= 2

\* the parts named by the changes of part a
NeighborParts(parts, a) ==
    {Part(parts, a).changes[c].part_index : c \in 1..Len(Part(parts, a).changes)}

\* the neighbors of part a with the greatest sum_lengths
BiggestNeighbors(parts, a) ==
    {b \in NeighborParts(parts, a) :
        \A o \in NeighborParts(parts, a) :
            Part(parts, o).sum_lengths <= Part(parts, b).sum_lengths}

FirstBiggestNeighbor(parts, a) ==
    LET changes == Part(parts, a).changes
        first == CHOOSE k \in 1..Len(changes) :
                    /\ changes[k].part_index \in BiggestNeighbors(parts, a)
                    /\ \A j \in 1..(k - 1) :
                          changes[j].part_index \notin BiggestNeighbors(parts, a)
    IN  changes[first].part_index

TrueLengths(parts) ==
    [q \in 1..Len(parts) |-> get_longest_distance(island.graph, parts[q].changes)]

\* C16: merge_short_parts returns, and then either one part remains or the longest
\* distance of every part left, over its current changes, is at least min_part_length;
\* every part it removes has the smallest longest distance of all parts, and the
\* removed part and all its neighbors become one part of the type of the neighbors
C16_ShortPartsMerged ==
    /\ pc = "undefined" => observed.step \notin {"part_lengths", "merge_negihbor"}
    /\ (pc = "convert" /\ observed.step \in {"long_enough", "merge_negihbor"}) =>
          \/ Len(island_parts) = 1
          \/ \A q \in 1..Len(island_parts) :
                /\ ~TrueLengths(island_parts)[q].undefined
                /\ TrueLengths(island_parts)[q].distance >= config.min_part_length
    /\ (pc \in {"convert", "merge_short_loop"} /\ observed.step = "merge_negihbor") =>
          LET before == observed.before
              neighbors == NeighborParts(before, observed.index)
          IN  /\ \A q \in 1..Len(before) :
                    TrueLengths(before)[observed.index + 1].distance
                        <= TrueLengths(before)[q].distance
              /\ Len(island_parts) = Len(before) - Cardinality(neighbors)
              /\ \A b \in neighbors :
                    Part(island_parts, observed.modified_index).type
                        = Part(before, b).type

\* no change of a part leads to a part of the same type
Alternate(parts) ==
    \A q \in 1..Len(parts) : \A c \in 1..Len(parts[q].changes) :
        Part(parts, parts[q].changes[c].part_index).type # parts[q].type

\* C18: after merge_same_neighbor_type_parts and after every merge of merge_short_parts
\* thin and thick parts alternate, and no change of the part given to merge_negihbor
\* leads to a part of its own type
C18_TypesAlternate ==
    /\ (\/ pc \in {"merge_short", "merge_short_loop"}
        \/ observed.step \in {"merge_same", "part_lengths", "long_enough", "merge_negihbor"})
          => Alternate(island_parts)
    /\ observed.step = "merge_negihbor" =>
          \A c \in 1..Len(Part(observed.before, observed.index).changes) :
              Part(observed.before,
                   Part(observed.before, observed.index).changes[c].part_index).type
                  # Part(observed.before, observed.index).type

\* merge_negihbor was called and left several parts
C18_Witness ==
    /\ pc = "merge_short_loop" /\ observed.step = "merge_negihbor"
    /\ Len(island_parts) >= 2

\* the greater and the smaller width of the island along neighbor n
EdgeMaxWidth(n) ==
    Max(island.graph.w[island.graph.nb[n].src], island.graph.w[island.graph.nb[n].node])

EdgeMinWidth(n) ==
    Min(island.graph.w[island.graph.nb[n].src], island.graph.w[island.graph.nb[n].node])

\* the edge stays in the class of the current part
StaysInClass(type, n) ==
    \/ type = "thin" /\ EdgeMaxWidth(n) < config.thick_min_width
    \/ type = "thick" /\ EdgeMaxWidth(n) > config.thin_max_width
    \/ /\ type = "middle"
       /\ EdgeMinWidth(n) >= config.thick_min_width
       /\ EdgeMaxWidth(n) <= config.thin_max_width

\* the transitions an edge that leaves the class of the current part asks for, as the
\* type to change to and the width at which to change
RequestedTransitions(type, n) ==
    CASE type = "thin" ->
             IF EdgeMaxWidth(n) < config.thin_max_width
             THEN << <<"middle", config.thick_min_width>> >>
             ELSE << <<"middle", config.thick_min_width>>,
                     <<"thick", config.thin_max_width>> >>
      [] type = "middle" ->
             IF EdgeMinWidth(n) < config.thick_min_width
             THEN << <<"thin", config.thick_min_width>> >>
             ELSE << <<"thick", config.thin_max_width>> >>
      [] type = "thick" ->
             IF EdgeMinWidth(n) > config.thick_min_width
             THEN << <<"middle", config.thin_max_width>> >>
             ELSE << <<"middle", config.thin_max_width>>,
                     <<"thin", config.thick_min_width>> >>

\* C19: detect_interface keeps the current part and adds the whole edge length to its
\* sum_lengths exactly when the edge stays in the class of the part; otherwise it
\* requests a transition at the threshold crossed, two transitions through middle for
\* a change between thin and thick, the nearer threshold first, and no part is ever
\* added as a change between thin and thick directly
C19_HysteresisTransitions ==
    observed.step = "detect_interface" =>
        /\ observed.calls = <<>> <=> StaysInClass(observed.type, observed.n)
        /\ observed.calls = <<>> =>
              /\ observed.next_part_index = observed.part_index
              /\ observed.after =
                    [observed.before EXCEPT ![observed.part_index + 1].sum_lengths =
                        @ + (island.graph.nb[observed.n].len2 \div 2)]
        /\ observed.calls # <<>> =>
              [c \in 1..Len(observed.calls) |->
                  <<observed.calls[c].to_type, observed.calls[c].limit>>]
                  = RequestedTransitions(observed.type, observed.n)
        /\ \A c \in 1..Len(observed.calls) :
              LET call == observed.calls[c]
              IN  call.added =>
                      {Part(call.before, call.part_index).type, call.to_type}
                          # {"thin", "thick"}

\* C19 (amended): as C19 for the part kept and for the transitions requested; a part
\* is added as a direct change between thin and thick only by the second of two
\* transitions whose first, the one into middle, was suppressed near the contour
C19_TransitionsRequested ==
    observed.step = "detect_interface" =>
        /\ observed.calls = <<>> <=> StaysInClass(observed.type, observed.n)
        /\ observed.calls = <<>> =>
              /\ observed.next_part_index = observed.part_index
              /\ observed.after =
                    [observed.before EXCEPT ![observed.part_index + 1].sum_lengths =
                        @ + (island.graph.nb[observed.n].len2 \div 2)]
        /\ observed.calls # <<>> =>
              [c \in 1..Len(observed.calls) |->
                  <<observed.calls[c].to_type, observed.calls[c].limit>>]
                  = RequestedTransitions(observed.type, observed.n)
        /\ \A c \in 1..Len(observed.calls) :
              LET call == observed.calls[c]
              IN  (/\ call.added
                   /\ {Part(call.before, call.part_index).type, call.to_type}
                          = {"thin", "thick"}) =>
                      /\ c = 2
                      /\ observed.calls[1].to_type = "middle"
                      /\ observed.calls[1].near_end
                      /\ observed.calls[1].after = observed.calls[1].before

\* an edge asked for two transitions, the one into middle was suppressed and the
\* second one added a part as a direct change between thick and thin
C19_Witness ==
    /\ observed.step = "detect_interface"
    /\ Len(observed.calls) = 2
    /\ ~observed.calls[1].added
    /\ observed.calls[2].added
    /\ {Part(observed.calls[2].before, observed.calls[2].part_index).type,
        observed.calls[2].to_type} = {"thin", "thick"}

\* C20: a call of add_part whose position lies within min_part_length of an end of the
\* skeleton at the contour adds no part and no change, leaves the changes and
\* sum_lengths of every part as they were and returns the index of the current part;
\* all it may do is retype part 0 while that is the only part and has no changes
C20_SuppressedNearContour ==
    observed.step = "detect_interface" =>
        \A c \in 1..Len(observed.calls) :
            LET call == observed.calls[c]
            IN  (call.near_end \/ call.near_start) =>
                    /\ ~call.added
                    /\ call.index = call.part_index
                    /\ \/ call.after = call.before
                       \/ /\ Len(call.before) = 1
                          /\ call.before[1].changes = <<>>
                          /\ call.after = [call.before EXCEPT ![1].type = call.to_type]

\* a transition near the end of the skeleton was suppressed while several parts exist
C20_Witness ==
    /\ observed.step = "detect_interface"
    /\ \E c \in 1..Len(observed.calls) :
          /\ observed.calls[c].near_end
          /\ Len(observed.calls[c].before) >= 2

-----------------------------------------------------------------------------
(* uniform_support_peninsula: a peninsula is sampled as one thick field *)

\* the sequence s itself, held as an explicit tuple
Tuple(s) == <<>> \o s

\* std::round of n / den for den > 0: halves go away from zero
RoundDiv(n, den) ==
    IF n >= 0 THEN (2 * n + den) \div (2 * den) ELSE -((2 * (-n) + den) \div (2 * den))

\* fast_round_up of n / den for den > 0: floor(n / den + 1/2)
RoundUpDiv(n, den) == (2 * n + den) \div (2 * den)

\* offset(island, -offset_delta, jtSquare) of an axis parallel rectangle: the rectangle
\* shrunk by offset_delta on every side, counter clockwise, or nothing when no area
\* is left.  The library is free in the vertex it starts the contour with: start.
Offset(contour, offset_delta, start) ==
    LET x0 == BBoxMin(contour, 1) + offset_delta
        x1 == BBoxMax(contour, 1) - offset_delta
        y0 == BBoxMin(contour, 2) + offset_delta
        y1 == BBoxMax(contour, 2) - offset_delta
        shrunk == << <<x0, y0>>, <<x1, y0>>, <<x1, y1>>, <<x0, y1>> >>
    IN  IF x0 >= x1 \/ y0 >= y1 THEN <<>>
        ELSE Tuple([i \in 1..4 |-> shrunk[((i - 1 + start) % 4) + 1]])

\* LineUtils::direction of an axis parallel line, normalized
LineDirection(line) ==
    <<IF line.b[1] > line.a[1] THEN 1 ELSE IF line.b[1] < line.a[1] THEN -1 ELSE 0,
      IF line.b[2] > line.a[2] THEN 1 ELSE IF line.b[2] < line.a[2] THEN -1 ELSE 0>>

\* Line::perp_distance_to of an axis parallel line
PerpDistance(line, point) ==
    IF line.a[2] = line.b[2] THEN Abs(point[2] - line.a[2]) ELSE Abs(point[1] - line.a[1])

\* LineUtils::middle
LineMiddle(line) ==
    <<TruncDiv(line.a[1] + line.b[1], 2), TruncDiv(line.a[2] + line.b[2], 2)>>

DistanceTolerance == 20

\* the test of the inner for loop of outline_offset: offset_line is the offset of island_line
IsOffsetOf(island_line, offset_line, offset_delta) ==
    LET dir1 == LineDirection(island_line)
        majorit_axis == IF Abs(dir1[1]) > Abs(dir1[2]) THEN 1 ELSE 2
        start1 == Min(island_line.a[majorit_axis], island_line.b[majorit_axis])
        end1 == Max(island_line.a[majorit_axis], island_line.b[majorit_axis])
        start2 == Min(offset_line.a[majorit_axis], offset_line.b[majorit_axis])
        end2 == Max(offset_line.a[majorit_axis], offset_line.b[majorit_axis])
    IN  /\ ~(start1 > end2 \/ start2 > end1)
        /\ LineDirection(offset_line) = dir1
        /\ ~(Abs(PerpDistance(island_line, LineMiddle(offset_line)) - offset_delta)
                > DistanceTolerance)

\* the converter of outline_offset: island line index -> index of its first offset line
\* (0-based, -1: the map has no entry for the line)
Converter(island_lines, offset_lines, offset_delta) ==
    [island_line_index \in 0..(Len(island_lines) - 1) |->
        LET found == {k \in 0..(Len(offset_lines) - 1) :
                         IsOffsetOf(island_lines[island_line_index + 1],
                                    offset_lines[k + 1], offset_delta)}
        IN  IF found = {} THEN -1
            ELSE CHOOSE k \in found : \A j \in found : k <= j]

\* outline_offset: the inner polygon and the converter (nothing when the offset is empty)
outline_offset(border, offset_delta, start) ==
    LET offseted == Offset(border, offset_delta, start)
    IN  IF offseted = <<>> THEN [inner |-> <<>>, field_2_inner |-> <<>>]
        ELSE [inner |-> offseted,
              field_2_inner |-> Converter(Tuple(to_lines(border)), Tuple(to_lines(offseted)),
                                          offset_delta)]

\* the for loop of sample_polygon with the conversion of field indices to inner lines
RECURSIVE SampleRunsInner(_, _, _, _, _, _)
SampleRunsInner(field, polygon_index, stop_index, inner_first, inner_last, sd) ==
    IF polygon_index = stop_index
    THEN IF inner_first # -1
         THEN add_lines_samples(to_lines(field.inner), inner_first, inner_last, sd) ELSE <<>>
    ELSE LET p == IF polygon_index = Len(field.border) THEN 0 ELSE polygon_index
         IN  IF ~field.is_outline[p + 1]
             THEN (IF inner_first = -1 THEN <<>>
                   ELSE add_lines_samples(to_lines(field.inner), inner_first, inner_last, sd))
                  \o SampleRunsInner(field, p + 1, stop_index, -1, -1, sd)
             ELSE IF field.field_2_inner[p] = -1
             THEN SampleRunsInner(field, p + 1, stop_index, inner_first, inner_last, sd)
             ELSE SampleRunsInner(field, p + 1, stop_index,
                                  IF inner_first = -1 THEN field.field_2_inner[p]
                                  ELSE inner_first,
                                  field.field_2_inner[p], sd)

\* sample_polygon on the contour of a field with its inner polygon
SamplePolygonInner(field, sample_distance) ==
    LET n == Len(field.border)
        changes == {i \in 0..(n - 1) : ~field.is_outline[i + 1]}
    IN  IF changes = {} THEN add_circle_sample(to_lines(field.inner), sample_distance)
        ELSE LET first_change_index == CHOOSE i \in changes : \A j \in changes : i <= j
                 stop_index == IF first_change_index = 0 THEN n ELSE first_change_index
                 start == FirstOutlineAfter(field.is_outline, first_change_index,
                                            first_change_index)
             IN  IF start = -1 THEN <<>>
                 ELSE SampleRunsInner(field, start, stop_index, -1, -1, sample_distance)

\* sample_outline of a field whose inner polygon is not its border
SampleOutlineInner(field, cfg) ==
    IF Len(field.inner) < 3 THEN <<>>
    ELSE SamplePolygonInner(field, cfg.thick_outline_max_distance)

\* the y range loop of sample_expolygon: <<min_y, max_y>>
RECURSIVE YRange(_, _, _, _)
YRange(points, i, min_y, max_y) ==
    IF i > Len(points) THEN <<min_y, max_y>>
    ELSE IF min_y > points[i][2] THEN YRange(points, i + 1, points[i][2], max_y)
    ELSE IF max_y < points[i][2] THEN YRange(points, i + 1, min_y, points[i][2])
    ELSE YRange(points, i + 1, min_y, max_y)

\* triangle_height = round(triangle_side * coef2), coef2 = sqrt(3) / 2 as float
TriangleHeight(triangle_side) == RoundDiv(triangle_side * 866025, 1000000)

\* the lines of sample_expolygon: not parallel with x, directed from lower y to higher y
ScanLines(points) ==
    LET lines == SelectSeq(to_lines(points), LAMBDA l : l.a[2] # l.b[2])
    IN  Tuple([i \in 1..Len(lines) |->
                 IF lines[i].a[2] > lines[i].b[2]
                 THEN [a |-> lines[i].b, b |-> lines[i].a] ELSE lines[i]])

\* intersection of one line with the row y (a.y < y < b.y)
Intersection(line, y) ==
    line.a[1] + TruncDiv((line.b[1] - line.a[1]) * (y - line.a[2]), line.b[2] - line.a[2])

\* std::sort of coordinates
RECURSIVE InsertCoord(_, _)
InsertCoord(sorted, x) ==
    IF sorted = <<>> THEN <<x>>
    ELSE IF x <= Head(sorted) THEN <<x>> \o sorted
    ELSE <<Head(sorted)>> \o InsertCoord(Tail(sorted), x)

RECURSIVE SortCoords(_)
SortCoords(s) == IF s = <<>> THEN <<>> ELSE InsertCoord(SortCoords(Tail(s)), Head(s))

\* the lines after the sort are passed from start_index to the first with a.y >= y and
\* those with b.y <= y are skipped: the row meets the lines with a.y < y < b.y
Intersections(lines, y) ==
    LET met == SelectSeq(lines, LAMBDA l : ~(l.b[2] <= y) /\ ~(l.a[2] >= y))
    IN  SortCoords([i \in 1..Len(met) |-> Intersection(met[i], y)])

\* while (x < end_x) of sample_expolygon
RECURSIVE GridRun(_, _, _, _)
GridRun(x, end_x, y, triangle_side) ==
    IF x < end_x THEN <<<<x, y>>>> \o GridRun(x + triangle_side, end_x, y, triangle_side)
    ELSE <<>>

\* the first x of the grid in an interval that starts at start_x
GridStart(start_x, is_odd, triangle_side) ==
    LET half_triangle_side == TruncDiv(triangle_side, 2)
        shifted == IF is_odd THEN start_x + half_triangle_side ELSE start_x
        div == TruncDiv(shifted, triangle_side) + (IF shifted > 0 THEN 1 ELSE 0)
    IN  IF is_odd THEN div * triangle_side - half_triangle_side ELSE div * triangle_side

\* the for loop over the pairs of intersections of one row
RECURSIVE GridRow(_, _, _, _, _)
GridRow(intersections, index, is_odd, y, triangle_side) ==
    IF ~(index + 1 < Len(intersections)) THEN <<>>
    ELSE GridRun(GridStart(intersections[index + 1], is_odd, triangle_side),
                 intersections[index + 2], y, triangle_side)
         \o GridRow(intersections, index + 2, is_odd, y, triangle_side)

\* the for loop over the rows; is_odd is the value before the row
RECURSIVE GridRows(_, _, _, _, _)
GridRows(lines, y, max_y, is_odd, triangle_side) ==
    IF ~(y < max_y) THEN <<>>
    ELSE GridRow(Intersections(lines, y), 0, ~is_odd, y, triangle_side)
         \o GridRows(lines, y + TriangleHeight(triangle_side), max_y, ~is_odd, triangle_side)

\* sample_expolygon of a polygon without holes
sample_expolygon(points, triangle_side) ==
    LET range == YRange(points, 1, points[1][2], points[1][2])
    IN  GridRows(ScanLines(points), range[1] + TruncDiv(TriangleHeight(triangle_side), 2),
                 range[2], FALSE, triangle_side)

\* Polygon::centroid: sum of (p + q) * cross(p, q) over the lines, divided by 3 * sum of
\* cross(p, q)
Cross(line) == line.a[1] * line.b[2] - line.b[1] * line.a[2]

Centroid(points) ==
    LET lines == Tuple(to_lines(points))
        area_sum == SumSeq(Tuple([i \in 1..Len(lines) |-> Cross(lines[i])]))
        cx == SumSeq(Tuple([i \in 1..Len(lines) |->
                               (lines[i].a[1] + lines[i].b[1]) * Cross(lines[i])]))
        cy == SumSeq(Tuple([i \in 1..Len(lines) |->
                               (lines[i].a[2] + lines[i].b[2]) * Cross(lines[i])]))
    IN  <<TruncDiv(cx, 3 * area_sum), TruncDiv(cy, 3 * area_sum)>>

SquaredNorm(v) == v[1] * v[1] + v[2] * v[2]

\* the farest point from center: the first of the points with the largest distance
RECURSIVE Extrem(_, _, _, _, _)
Extrem(points, i, center, extrem, extrem_distance_sq) ==
    IF i > Len(points) THEN extrem
    ELSE LET distance_sq == SquaredNorm(<<points[i][1] - center[1], points[i][2] - center[2]>>)
         IN  IF extrem_distance_sq < distance_sq
             THEN Extrem(points, i + 1, center, points[i], distance_sq)
             ELSE Extrem(points, i + 1, center, extrem, extrem_distance_sq)

\* length of the vector from the center to the extrem; a whole number for the polygons
\* of the model, so that cos(angle) = dir.x / r and sin(angle) = dir.y / r are exact
VectorLength(dir) ==
    CHOOSE r \in 0..(Abs(dir[1]) + Abs(dir[2])) :
        r * r <= SquaredNorm(dir) /\ SquaredNorm(dir) < (r + 1) * (r + 1)

\* MultiPoint::rotate(angle, center) with angle = atan2(dir.y, dir.x): coordinates are
\* rounded with std::round
RotatePoint(point, center, dir) ==
    LET r == VectorLength(dir)
        dx == point[1] - center[1]
        dy == point[2] - center[2]
    IN  IF r = 0 THEN point
        ELSE <<RoundDiv(center[1] * r + dir[1] * dx - dir[2] * dy, r),
               RoundDiv(center[2] * r + dir[1] * dy + dir[2] * dx, r)>>

\* Point::rotate(-angle, center): coordinates are rounded with fast_round_up
RotatePointBack(point, center, dir) ==
    LET r == VectorLength(dir)
        dx == point[1] - center[1]
        dy == point[2] - center[2]
    IN  IF r = 0 THEN point
        ELSE <<RoundUpDiv(center[1] * r + dir[1] * dx + dir[2] * dy, r),
               RoundUpDiv(center[2] * r - dir[2] * dx + dir[1] * dy, r)>>

\* sample_expolygon_with_centering
sample_expolygon_with_centering(points, triangle_side) ==
    IF points = <<>> THEN <<>>
    ELSE LET center == Centroid(points)
             extrem == Extrem(points, 1, center, points[1], -1)
             dir == <<extrem[1] - center[1], extrem[2] - center[2]>>
             expoly_tr == Tuple([i \in 1..Len(points) |-> RotatePoint(points[i], center, dir)])
             result == sample_expolygon(expoly_tr, triangle_side)
         IN  Tuple([i \in 1..Len(result) |-> RotatePointBack(result[i], center, dir)])

\* SupportIslandInnerPoint(point, inner, Type::thick_part_inner)
InnerPoint(point) == [point |-> point, type |-> "thick_part_inner", kind |-> "inner"]

\* the Field that uniform_support_peninsula builds from the peninsula
PeninsulaField(peninsula, cfg) ==
    LET offseted == outline_offset(peninsula.unsuported_area,
                                   cfg.minimal_distance_from_outline, peninsula.offset_start)
    IN  [border |-> peninsula.unsuported_area,
         is_outline |-> peninsula.is_outline,
         inner |-> offseted.inner,
         field_2_inner |-> offseted.field_2_inner]

\* the inner points of the field
InnerPoints(field, cfg) ==
    LET inner_points == sample_expolygon_with_centering(field.inner,
                                                        cfg.thick_inner_max_distance)
    IN  Tuple([i \in 1..Len(inner_points) |-> InnerPoint(inner_points[i])])

\* a result with the inner points in front of the outline points
PeninsulaSamplesInnerFirst(field, cfg) == InnerPoints(field, cfg) \o SampleOutlineInner(field, cfg)

\* the supports of uniform_support_peninsula before align_samples
PeninsulaSamples(field, cfg) == SampleOutlineInner(field, cfg) \o InnerPoints(field, cfg)

\* uniform_support_peninsula up to align_samples; without inner part it returns nothing
UniformSupportPeninsula ==
    /\ pc = "peninsula"
    /\ IF PeninsulaField(island, config).inner = <<>>
       THEN /\ supports' = <<>>
            /\ branch' = "no_inner"
            /\ pc' = "peninsula_done"
       ELSE /\ supports' = PeninsulaSamples(PeninsulaField(island, config), config)
            /\ branch' = "peninsula"
            /\ pc' = "peninsula_align"
    /\ sampled' = supports'
    /\ UNCHANGED <<island, config, count_iteration, max_move, sweeps, first_small,
                   prev_position, dup_fixed, address, first_output, SegVars, LoadVars>>

\* align_samples of the peninsula up to its loop
PeninsulaAlignEnter ==
    /\ pc = "peninsula_align"
    /\ IF Len(supports) = 1 \/ ~(\E i \in 1..Len(supports) : can_move(supports[i]))
       THEN /\ pc' = "peninsula_done"
            /\ UNCHANGED count_iteration
       ELSE /\ pc' = "peninsula_align_loop"
            /\ count_iteration' = config.count_iteration
    /\ max_move' = 0
    /\ UNCHANGED <<island, config, supports, branch, sampled, sweeps, first_small,
                   prev_position, dup_fixed, address, first_output, SegVars, LoadVars>>

\* while (--count_iteration > 1): the loop is left
PeninsulaAlignLoopExit ==
    /\ pc = "peninsula_align_loop"
    /\ ~(SizeTDec(count_iteration) > 1)
    /\ count_iteration' = SizeTDec(count_iteration)
    /\ pc' = "peninsula_done"
    /\ UNCHANGED <<island, config, supports, branch, sampled, max_move, sweeps,
                   first_small, prev_position, dup_fixed, address, first_output,
                   SegVars, LoadVars>>

\* the line of the inner polygon that an outline point lies on (-1: none)
LineOfPoint(inner_lines, point) ==
    LET on == {k \in 1..Len(inner_lines) : OnSegment(point, inner_lines[k].a, inner_lines[k].b)}
    IN  IF on = {} THEN -1 ELSE CHOOSE k \in on : \A j \in on : k <= j

Clamp(lo, v, hi) == Max(lo, Min(hi, v))

\* SupportOutlineIslandPoint::move: the point slides on its line, not further than
\* max_align_distance
OutlineMove(field, cfg, s, destination) ==
    LET k == LineOfPoint(Tuple(to_lines(field.inner)), s.point)
        a == field.inner[k]
        b == field.inner[NextIdx(field.inner, k)]
    IN  IF k = -1 THEN s.point
        ELSE <<Clamp(Max(Min(a[1], b[1]), s.point[1] - cfg.max_align_distance),
                     destination[1],
                     Min(Max(a[1], b[1]), s.point[1] + cfg.max_align_distance)),
               Clamp(Max(Min(a[2], b[2]), s.point[2] - cfg.max_align_distance),
                     destination[2],
                     Min(Max(a[2], b[2]), s.point[2] + cfg.max_align_distance))>>

\* SupportIslandInnerPoint::move: the closest point of the inner polygon
InnerMove(field, s, destination) ==
    <<Clamp(BBoxMin(field.inner, 1), destination[1], BBoxMax(field.inner, 1)),
      Clamp(BBoxMin(field.inner, 2), destination[2], BBoxMax(field.inner, 2))>>

\* SupportIslandPoint::move of the points of a peninsula: only the position changes
PeninsulaMove(field, cfg, s, destination) ==
    IF s.kind = "outline" THEN [s EXCEPT !.point = OutlineMove(field, cfg, s, destination)]
    ELSE IF s.kind = "inner" THEN [s EXCEPT !.point = InnerMove(field, s, destination)]
    ELSE s

\* the distance that move returns
MoveDistance(from, to) == VectorLength(<<to[1] - from[1], to[2] - from[2]>>)

\* centroid of the island cell of a support.  The cell depends on all supports and on
\* the outline; the model admits the support itself, the centroid of the unsupported
\* area and the point half way between them, and in one sweep two supports whose
\* center is not their own position.
PeninsulaCellCenters(center, point) ==
    <<point,
      <<TruncDiv(point[1] + center[1], 2), TruncDiv(point[2] + center[2], 2)>>,
      center>>

\* the for loop of align_once: support i is asked to move to centers[i]
PeninsulaAlignOnceMoves(field, cfg, sup, centers) ==
    Tuple([i \in 1..Len(sup) |->
              IF ~can_move(sup[i]) THEN sup[i]
              ELSE PeninsulaMove(field, cfg, sup[i], centers[i])])

PeninsulaMaxMove(before, after) ==
    MaxSeq(Tuple([i \in 1..Len(before) |-> MoveDistance(before[i].point, after[i].point)])
           \o <<0>>)

\* while (--count_iteration > 1): align_once up to the call of move_duplicit_positions
PeninsulaAlignOnce ==
    /\ pc = "peninsula_align_loop"
    /\ SizeTDec(count_iteration) > 1
    /\ count_iteration' = SizeTDec(count_iteration)
    /\ LET field == PeninsulaField(island, config)
           center == Centroid(island.unsuported_area)
       IN  \E first, second \in 1..Len(supports), which \in 1..3 :
              /\ supports' = PeninsulaAlignOnceMoves(
                                 field, config, supports,
                                 [i \in 1..Len(supports) |->
                                     PeninsulaCellCenters(center, supports[i].point)[
                                         IF i \in {first, second} THEN which ELSE 1]])
              /\ max_move' = PeninsulaMaxMove(supports, supports')
    /\ prev_position' = to_points(supports)
    /\ sweeps' = sweeps + 1
    /\ dup_fixed' = {}
    /\ pc' = "peninsula_move_duplicit"
    /\ UNCHANGED <<island, config, branch, sampled, first_small, address, first_output,
                   SegVars, LoadVars>>

\* body of the do-while of move_duplicit_positions for the duplicate index chosen
PeninsulaMoveDuplicitStep(field, cfg, sup, prev, duplicit_index) ==
    [sup EXCEPT ![duplicit_index] =
        PeninsulaMove(field, cfg, sup[duplicit_index],
                      <<TruncDiv(prev[duplicit_index][1], 2)
                            + TruncDiv(sup[duplicit_index].point[1], 2),
                        TruncDiv(prev[duplicit_index][2], 2)
                            + TruncDiv(sup[duplicit_index].point[2], 2)>>)]

\* move_duplicit_positions: one corrective step for a duplicate position
PeninsulaMoveDuplicit ==
    /\ pc = "peninsula_move_duplicit"
    /\ DuplicitIndices(to_points(supports)) # {}
    /\ \E duplicit_index \in DuplicitIndices(to_points(supports)) :
          /\ supports' = PeninsulaMoveDuplicitStep(PeninsulaField(island, config), config,
                                                   supports, prev_position, duplicit_index)
          /\ dup_fixed' = dup_fixed \cup {duplicit_index}
    /\ UNCHANGED <<island, config, pc, branch, sampled, count_iteration, max_move, sweeps,
                   first_small, prev_position, address, first_output, SegVars, LoadVars>>

\* move_duplicit_positions finds no duplicate: align_once returns max_move and
\* align_samples breaks the loop when the move was small
PeninsulaAlignOnceReturn ==
    /\ pc = "peninsula_move_duplicit"
    /\ DuplicitIndices(to_points(supports)) = {}
    /\ first_small' = IF first_small = 0 /\ max_move < config.minimal_move
                      THEN sweeps ELSE first_small
    /\ pc' = IF max_move < config.minimal_move THEN "peninsula_done"
             ELSE "peninsula_align_loop"
    /\ UNCHANGED <<island, config, supports, branch, sampled, count_iteration, max_move,
                   sweeps, prev_position, dup_fixed, address, first_output,
                   SegVars, LoadVars>>

\* peninsulas of the model: rectangles, counter clockwise from the lowest left corner
Rectangle(x, y, w, h) == << <<x, y>>, <<x + w, y>>, <<x + w, y + h>>, <<x, y + h>> >>

PeninsulaAreas ==
    {Rectangle(0, 0, 10, 8), Rectangle(0, 0, 8, 10), Rectangle(3, 1, 12, 10),
     Rectangle(0, 0, 4, 12), Rectangle(1, 1, 2, 2)}

\* which lines of the area are outline (coast) of the peninsula
OutlinePatterns ==
    {<<TRUE, TRUE, TRUE, TRUE>>, <<FALSE, TRUE, TRUE, TRUE>>, <<TRUE, FALSE, TRUE, TRUE>>,
     <<TRUE, TRUE, FALSE, FALSE>>, <<FALSE, TRUE, FALSE, TRUE>>,
     <<FALSE, FALSE, FALSE, FALSE>>}

Peninsulas ==
    {[unsuported_area |-> area, is_outline |-> o, offset_start |-> start] :
        area \in PeninsulaAreas, o \in OutlinePatterns, start \in 0..3}

PeninsulaConfigs ==
    {[minimal_distance_from_outline |-> d, thick_inner_max_distance |-> inner,
      thick_outline_max_distance |-> outline, max_align_distance |-> 2,
      count_iteration |-> n, minimal_move |-> 1] :
        d \in {1, 2}, inner \in {3, 4}, outline \in {5, 9}, n \in {2, 3}}

\* the rotation of the inner polygon is exact: the vector from the centroid to the
\* farest point has a whole length
ExactRotation(points) ==
    IF points = <<>> THEN TRUE
    ELSE LET center == Centroid(points)
             extrem == Extrem(points, 1, center, points[1], -1)
             dir == <<extrem[1] - center[1], extrem[2] - center[2]>>
         IN  VectorLength(dir) * VectorLength(dir) = SquaredNorm(dir)

InitPen ==
    /\ island \in Peninsulas
    /\ config \in PeninsulaConfigs
    /\ ExactRotation(PeninsulaField(island, config).inner)
    /\ pc = "peninsula"
    /\ supports = <<>>
    /\ branch = "none"
    /\ sampled = <<>>
    /\ count_iteration = 0
    /\ max_move = 0
    /\ sweeps = 0
    /\ first_small = 0
    /\ prev_position = <<>>
    /\ dup_fixed = {}
    /\ address = <<>>
    /\ first_output = <<>>
    /\ SegIdle /\ LoadIdle

NextPen ==
    \/ UniformSupportPeninsula
    \/ PeninsulaAlignEnter
    \/ PeninsulaAlignLoopExit
    \/ PeninsulaAlignOnce
    \/ PeninsulaMoveDuplicit
    \/ PeninsulaAlignOnceReturn

SpecPen == InitPen /\ [][NextPen]_vars

-----------------------------------------------------------------------------
(* merge_short_parts: the lengths kept beside the parts *)

\* C27: throughout merge_short_parts part_lengths has one entry per island part, entry
\* i being the longest distance of the part at index i, and the index that
\* merge_negihbor returns is the index of the merged part
C27_LengthsFollowParts ==
    /\ pc = "merge_short_loop" =>
          /\ Len(part_lengths) = Len(island_parts)
          /\ \A q \in 1..Len(island_parts) :
                /\ ~TrueLengths(island_parts)[q].undefined
                /\ part_lengths[q] = TrueLengths(island_parts)[q].distance
    /\ (observed # <<>> /\ observed.step = "merge_negihbor"
            /\ island_parts # observed.before /\ Len(island_parts) > 1) =>
          /\ observed.index < Len(island_parts)
          /\ observed.index = observed.modified_index

-----------------------------------------------------------------------------
(* The inner grid of a polygon and of the same polygon at another place *)

\* the points moved by the vector t
Translate(points, t) ==
    Tuple([i \in 1..Len(points) |-> <<points[i][1] + t[1], points[i][2] + t[2]>>])

\* inner polygons whose rotation is exact, and the vectors they are moved by
GridPolygons ==
    {Rectangle(1, 1, 8, 6), Rectangle(1, 1, 6, 8), Rectangle(5, 3, 8, 6),
     Rectangle(0, 0, 16, 12), Rectangle(-4, -3, 8, 6), Rectangle(20, 20, 6, 8)}

GridTranslations ==
    {<<0, 0>>, <<1, 0>>, <<0, 1>>, <<3, 0>>, <<4, 0>>, <<12, 0>>, <<0, 7>>, <<-12, -12>>, <<2, 5>>}

GridSides == {3, 4}

InitGrid ==
    /\ island \in {[contour |-> polygon, translation |-> t] :
                      polygon \in GridPolygons, t \in GridTranslations}
    /\ config \in {[thick_inner_max_distance |-> side] : side \in GridSides}
    /\ ExactRotation(island.contour)
    /\ pc = "grid"
    /\ supports = <<>>
    /\ branch = "none"
    /\ sampled = <<>>
    /\ count_iteration = 0
    /\ max_move = 0
    /\ sweeps = 0
    /\ first_small = 0
    /\ prev_position = <<>>
    /\ dup_fixed = {}
    /\ address = <<>>
    /\ first_output = <<>>
    /\ SegIdle /\ LoadIdle

\* sample_expolygon_with_centering of the polygon
SampleGrid ==
    /\ pc = "grid"
    /\ first_output' = sample_expolygon_with_centering(island.contour,
                                                       config.thick_inner_max_distance)
    /\ pc' = "grid_translated"
    /\ UNCHANGED <<island, config, supports, branch, sampled, count_iteration, max_move,
                   sweeps, first_small, prev_position, dup_fixed, address,
                   SegVars, LoadVars>>

\* sample_expolygon_with_centering of the polygon moved by the translation
SampleTranslatedGrid ==
    /\ pc = "grid_translated"
    /\ supports' = sample_expolygon_with_centering(
                       Translate(island.contour, island.translation),
                       config.thick_inner_max_distance)
    /\ pc' = "grid_done"
    /\ UNCHANGED <<island, config, branch, sampled, count_iteration, max_move, sweeps,
                   first_small, prev_position, dup_fixed, address, first_output,
                   SegVars, LoadVars>>

NextGrid ==
    \/ SampleGrid
    \/ SampleTranslatedGrid

SpecGrid == InitGrid /\ [][NextGrid]_vars

\* C25: the grid points of a polygon moved by a vector are the grid points of the
\* polygon, each moved by the vector
C25_GridTranslationInvariant ==
    pc = "grid_done" => supports = Translate(first_output, island.translation)

-----------------------------------------------------------------------------
(* The corrective steps of move_duplicit_positions *)

\* the position of support duplicit_index after the corrective step on it
PositionAfterStep(duplicit_index) ==
    PeninsulaMoveDuplicitStep(PeninsulaField(island, config), config, supports,
                              prev_position, duplicit_index)[duplicit_index].point

\* C23: every point that move_duplicit_positions can choose for a corrective step
\* can move, changed its position in this sweep, and is moved by the step to the
\* middle between its position before the sweep and its current position, so that
\* the step changes the positions and the loop comes to an end
C23_DuplicitStepHalvesLastMove ==
    pc = "peninsula_move_duplicit" =>
        \A duplicit_index \in DuplicitIndices(to_points(supports)) :
            /\ can_move(supports[duplicit_index])
            /\ supports[duplicit_index].point # prev_position[duplicit_index]
            /\ PositionAfterStep(duplicit_index) # supports[duplicit_index].point
            /\ Abs(2 * PositionAfterStep(duplicit_index)[1]
                      - (prev_position[duplicit_index][1]
                           + supports[duplicit_index].point[1])) <= 2
            /\ Abs(2 * PositionAfterStep(duplicit_index)[2]
                      - (prev_position[duplicit_index][2]
                           + supports[duplicit_index].point[2])) <= 2

-----------------------------------------------------------------------------
(* create_supports_for_thin_part run step by step on skeletons with branches *)
(* and cycles.  item is curr, process_items is process, next_item holds      *)
(* is_first_neighbor and supports is results.  observed keeps what the       *)
(* passes of the loop did: the neighbors sampled so far (visited), the arc   *)
(* length, in half units and along the way the cursor came, from the center  *)
(* to the start of the current neighbor (curr2), to the start of every       *)
(* waiting neighbor (process2) and to every emitted point (points2).         *)

MaxThinSteps == 24

\* skeletons of thin parts: every node narrower than thin_max_width
ThinGraph(nodes, edges) == MakeGraph([v \in 1..nodes |-> 2], edges)

ThinLengths == {8, 12, 20}

\* contour node 1 - node 2 - node 3 - contour node 4
ThinChain(ls) ==
    ThinGraph(4, << [a |-> 1, b |-> 2, len2 |-> ls[1]], [a |-> 2, b |-> 3, len2 |-> ls[2]],
                    [a |-> 3, b |-> 4, len2 |-> ls[3]] >>)

\* junction 2 with branches to the contour nodes 1, 3 and 4
ThinFork(ls) ==
    ThinGraph(4, << [a |-> 1, b |-> 2, len2 |-> ls[1]], [a |-> 2, b |-> 3, len2 |-> ls[2]],
                    [a |-> 2, b |-> 4, len2 |-> ls[3]] >>)

\* the skeleton of a thin ring: cycle 1 - 2 - 3 - 1
ThinRing(ls) ==
    ThinGraph(3, << [a |-> 1, b |-> 2, len2 |-> ls[1]], [a |-> 2, b |-> 3, len2 |-> ls[2]],
                    [a |-> 3, b |-> 1, len2 |-> ls[3]] >>)

\* the ring with a spur from every ring node to the contour (nodes 4, 5, 6)
ThinRingSpurs(ls) ==
    ThinGraph(6, << [a |-> 1, b |-> 2, len2 |-> ls[1]], [a |-> 2, b |-> 3, len2 |-> ls[2]],
                    [a |-> 3, b |-> 1, len2 |-> ls[3]], [a |-> 1, b |-> 4, len2 |-> 4],
                    [a |-> 2, b |-> 5, len2 |-> 4], [a |-> 3, b |-> 6, len2 |-> 4] >>)

\* a stem from the contour node 1 to the cycle 2 - 3 - 4 - 2
ThinLollipop(ls) ==
    ThinGraph(4, << [a |-> 1, b |-> 2, len2 |-> ls[1]], [a |-> 2, b |-> 3, len2 |-> ls[2]],
                    [a |-> 3, b |-> 4, len2 |-> ls[3]], [a |-> 4, b |-> 2, len2 |-> 12] >>)

ThinGraphs ==
    UNION { {ThinChain(ls), ThinFork(ls), ThinRing(ls), ThinRingSpurs(ls), ThinLollipop(ls)} :
              ls \in [1..3 -> ThinLengths] }

\* thin parts of a skeleton: the center in the middle of one of the first three
\* edges, and on a chain possibly an end in the middle of the last edge
ThinPartsOf(G) ==
    { [center |-> [n |-> n, num |-> 1, den |-> 2], ends |-> ends] :
        n \in 1..6,
        ends \in {<<>>} \cup (IF Len(G.w) = 4 /\ Len(G.nb) = 6 /\ G.nb[3].src = 2 /\ G.nb[3].node = 3
                              THEN {<<[n |-> 5, num |-> 1, den |-> 2]>>} ELSE {}) }

ThinIslands ==
    UNION { { [graph |-> G, part |-> part] : part \in ThinPartsOf(G) } : G \in ThinGraphs }

ThinConfigs == [ thin_max_distance : {4, 6} ]

\* arc length from the center to the start of the center neighbor and of its twin
CenterArc2(G, part) ==
    - ((G.nb[part.center.n].len2 * part.center.num) \div part.center.den)

TwinArc2(G, part) == - (G.nb[part.center.n].len2 + CenterArc2(G, part))

InitThin ==
    /\ island \in ThinIslands
    /\ config \in ThinConfigs
    /\ pc = "thin_part"
    /\ supports = <<>>
    /\ item = <<>>
    /\ next_item = <<>>
    /\ process_items = <<>>
    /\ observed = <<>>
    /\ island_parts = <<>> /\ neighbor_index = 0 /\ part_lengths = <<>>
    /\ branch = "none"
    /\ sampled = <<>>
    /\ count_iteration = 0
    /\ max_move = 0
    /\ sweeps = 0
    /\ first_small = 0
    /\ prev_position = <<>>
    /\ dup_fixed = {}
    /\ address = <<>>
    /\ first_output = <<>>
    /\ LoadIdle

ThinUnchanged ==
    UNCHANGED <<island, config, branch, sampled, count_iteration, max_move, sweeps,
                first_small, prev_position, dup_fixed, address, first_output,
                island_parts, neighbor_index, part_lengths, LoadVars>>

\* create_supports_for_thin_part up to the while loop
ThinEnter ==
    /\ pc = "thin_part"
    /\ LET st == ThinStart(island.graph, island.part, config)
       IN  /\ item' = st.curr
           /\ process_items' = st.process
           /\ next_item' = [is_first_neighbor |-> st.is_first_neighbor]
           /\ supports' = st.results
    /\ observed' = [step |-> "start", visited |-> <<>>,
                    curr2 |-> CenterArc2(island.graph, island.part),
                    process2 |-> <<TwinArc2(island.graph, island.part)>>,
                    points2 |-> <<>>]
    /\ pc' = "thin_loop"
    /\ ThinUnchanged

\* the neighbor that the next pass of the loop samples and the entries that wait then
ThinCurr == IF item.neighbor = 0 THEN process_items[Len(process_items)] ELSE item

ThinWaiting ==
    IF item.neighbor = 0 THEN SubSeq(process_items, 1, Len(process_items) - 1)
    ELSE process_items

\* what the next pass does with its neighbor: it ends the part, closes a cycle or goes on
ThinKind ==
    IF EndsOn(island.part.ends, ThinCurr.neighbor) # <<>> THEN "end"
    ELSE IF ~next_item.is_first_neighbor
            /\ FindNeighbor(ThinWaiting, get_twin(island.graph, ThinCurr.neighbor)) # 0
    THEN "loop"
    ELSE "next"

\* position on neighbor n, in half units, of the sampled position r
Position2(G, r) == (G.nb[r.n].len2 * r.num) \div r.den

\* one pass of the while loop
ThinLoop ==
    /\ pc = "thin_loop"
    /\ item.neighbor # 0 \/ process_items # <<>>
    /\ Len(observed.visited) < MaxThinSteps
    /\ LET G == island.graph
           nx == ThinStep(G, island.part, config,
                          [curr |-> item, process |-> process_items,
                           is_first_neighbor |-> next_item.is_first_neighbor,
                           results |-> supports])
           n == ThinCurr.neighbor
           arc2 == IF item.neighbor = 0 THEN observed.process2[Len(process_items)]
                   ELSE observed.curr2
           waiting2 == SubSeq(observed.process2, 1, Len(ThinWaiting))
           it == FindNeighbor(ThinWaiting, get_twin(G, n))
       IN  /\ item' = nx.curr
           /\ process_items' = nx.process
           /\ next_item' = [is_first_neighbor |-> nx.is_first_neighbor]
           /\ supports' = nx.results
           /\ observed' =
                 [step |-> ThinKind, neighbor |-> n,
                  before |-> ThinCurr.support_in, after |-> nx.curr.support_in,
                  waiting |-> IF ThinKind = "loop" THEN ThinWaiting[it] ELSE <<>>,
                  waiting2 |-> IF ThinKind = "loop" THEN waiting2[it] ELSE 0,
                  emitted |-> Len(nx.results) - Len(supports),
                  visited |-> Append(observed.visited, n),
                  curr2 |-> arc2 + G.nb[n].len2,
                  process2 |->
                      IF ThinKind = "loop" THEN RemoveAt(waiting2, it)
                      ELSE waiting2 \o [i \in 1..(Len(nx.process) - Len(ThinWaiting)) |->
                                           arc2 + G.nb[n].len2],
                  points2 |-> observed.points2
                              \o [i \in 1..(Len(nx.results) - Len(supports)) |->
                                     arc2 + Position2(G, nx.results[Len(supports) + i])]]
    /\ UNCHANGED pc
    /\ ThinUnchanged

\* the loop ends: no current neighbor and none waiting
ThinReturn ==
    /\ pc = "thin_loop"
    /\ item.neighbor = 0 /\ process_items = <<>>
    /\ pc' = "thin_done"
    /\ UNCHANGED <<supports, item, next_item, process_items, observed>>
    /\ ThinUnchanged

NextThin ==
    \/ ThinEnter
    \/ ThinLoop
    \/ ThinReturn

SpecThin == InitThin /\ [][NextThin]_vars

\* C28: no neighbor is sampled twice, and a neighbor and its twin are not both
\* sampled, except the center neighbor and its twin
C28_EachEdgeSampledOnce ==
    pc \in {"thin_loop", "thin_done"} =>
        \A i, j \in 1..Len(observed.visited) :
            i < j =>
                /\ observed.visited[i] # observed.visited[j]
                /\ get_twin(island.graph, observed.visited[i]) = observed.visited[j]
                      => observed.visited[i] \in
                            {island.part.center.n,
                             get_twin(island.graph, island.part.center.n)}

\* length, in half units, of the shortest way from node u to node v over at most
\* steps edges (NoWay: none)
NoWay == 1000000

RECURSIVE NodeDistance(_, _, _, _)
NodeDistance(G, u, v, steps) ==
    IF u = v THEN 0
    ELSE IF steps = 0 THEN NoWay
    ELSE LET ways == {G.nb[G.out[u][k]].len2
                         + NodeDistance(G, G.nb[G.out[u][k]].node, v, steps - 1) :
                      k \in 1..Len(G.out[u])}
         IN  CHOOSE d \in ways : \A other \in ways : d <= other

\* length, in half units, of the shortest way along the skeleton from the sampled
\* position r to node v
PointDistance(G, r, v) ==
    Min(NodeDistance(G, G.nb[r.n].src, v, Len(G.w)) + Position2(G, r),
        NodeDistance(G, G.nb[r.n].node, v, Len(G.w)) + G.nb[r.n].len2 - Position2(G, r))

\* the pass that closed a cycle emitted a thin_part_loop point
LoopPointEmitted ==
    /\ observed.emitted > 0
    /\ supports[Len(supports)].type = "thin_part_loop"

\* the points emitted before the thin_part_loop point of the last pass
EmittedBeforeLoopPoint ==
    IF LoopPointEmitted THEN SubSeq(supports, 1, Len(supports) - 1) ELSE supports

\* C22: the pass that finds the twin of its neighbor waiting in process emits a
\* thin_part_loop point exactly when no point emitted before lies within half of
\* thin_max_distance of the end of the neighbor along the skeleton; the waiting
\* twin is removed and the cursor stops
C22_LoopPointIffNoPointNear ==
    (pc = "thin_loop" /\ observed.step = "loop") =>
        /\ item.neighbor = 0
        /\ FindNeighbor(process_items, get_twin(island.graph, observed.neighbor)) = 0
        /\ LoopPointEmitted <=>
              ~\E k \in 1..Len(EmittedBeforeLoopPoint) :
                  PointDistance(island.graph, EmittedBeforeLoopPoint[k],
                                island.graph.nb[observed.neighbor].node)
                      <= 2 * (config.thin_max_distance \div 2)

\* distance, in half units and along the center edge, from the center to the sampled
\* position r on the center neighbor or on its twin
CenterEdgeDistance(G, part, r) ==
    IF r.n = part.center.n
    THEN Abs(Position2(G, r) + CenterArc2(G, part))
    ELSE Abs(Position2(G, r) + TwinArc2(G, part))

\* the neighbors that follow neighbor n: those of its target node without its twin
Successors(G, n) == SelectSeq(G.out[G.nb[n].node], LAMBDA m : m # get_twin(G, n))

\* C21: every thin_part_change point lies at half of thin_max_distance plus a
\* multiple of thin_max_distance from the center, along the way its cursor came and
\* along the center edge, and the distance left to the next point at the end of a
\* neighbor is what the cursor and every waiting branch start the next neighbors with
C21_PointsEverySupportDistance ==
    pc \in {"thin_loop", "thin_done"} =>
        /\ \A k \in 1..Len(supports) :
              supports[k].type = "thin_part_change" =>
                 /\ observed.points2[k] >= config.thin_max_distance
                 /\ (observed.points2[k] - config.thin_max_distance)
                        % (2 * config.thin_max_distance) = 0
                 /\ supports[k].n \in {island.part.center.n,
                                       get_twin(island.graph, island.part.center.n)} =>
                       /\ CenterEdgeDistance(island.graph, island.part, supports[k])
                             >= config.thin_max_distance
                       /\ (CenterEdgeDistance(island.graph, island.part, supports[k])
                              - config.thin_max_distance)
                             % (2 * config.thin_max_distance) = 0
        /\ observed.step = "next" =>
              /\ 2 * observed.after + island.graph.nb[observed.neighbor].len2
                    = 2 * (observed.before + observed.emitted * config.thin_max_distance)
              /\ \A i \in 1..Len(Successors(island.graph, observed.neighbor)) :
                    IF i = 1
                    THEN item = [support_in |-> observed.after,
                                 neighbor |-> Successors(island.graph, observed.neighbor)[1]]
                    ELSE \E j \in 1..Len(process_items) :
                            process_items[j]
                               = [support_in |-> observed.after,
                                  neighbor |-> Successors(island.graph, observed.neighbor)[i]]

-----------------------------------------------------------------------------
(* The border walk of create_thick_field step by step.  item holds the        *)
(* outline index, the points, the source indices and the done indices of the  *)
(* walk; observed holds input_index and how the walk was closed.              *)

MaxFieldSteps == 30

\* the contour of vertices that starts s vertices earlier
RotatedLines(vertices, s) ==
    Tuple([k \in 1..Len(vertices) |->
              [a |-> vertices[((k - 1 - s + Len(vertices)) % Len(vertices)) + 1],
               b |-> vertices[((k - s + Len(vertices)) % Len(vertices)) + 1]]])

\* a thick body whose only thin arm leaves to the left; the arm ends at x
ArmVertices ==
    << <<0, -1>>, <<10, -1>>, <<10, -5>>, <<20, -5>>, <<20, 5>>, <<10, 5>>, <<10, 1>>,
       <<0, 1>> >>

ArmIsland(s, x) ==
    LET cell == <<s % 8, (6 + s) % 8, 0, 0>>
    IN  [lines |-> RotatedLines(ArmVertices, s),
         twin |-> <<2, 1, 4, 3>>,
         cell |-> cell,
         changes |-> << [neighbor |-> 1, i1 |-> cell[1], i2 |-> cell[2],
                         p1 |-> <<x, -1>>, p2 |-> <<x, 1>>, opposite |-> TRUE] >>]

\* a thick body above a straight wall, between a thin arm to the left and one to the
\* right: the wall is the line a walk comes to from the left arm and leaves to the
\* right arm
BulgeVertices ==
    << <<0, -1>>, <<30, -1>>, <<30, 1>>, <<20, 1>>, <<20, 5>>, <<10, 5>>, <<10, 1>>,
       <<0, 1>> >>

BulgeIsland(s, x) ==
    LET cell == <<s % 8, (6 + s) % 8, (2 + s) % 8, s % 8>>
    IN  [lines |-> RotatedLines(BulgeVertices, s),
         twin |-> <<2, 1, 4, 3>>,
         cell |-> cell,
         changes |-> << [neighbor |-> 1, i1 |-> cell[1], i2 |-> cell[2],
                         p1 |-> <<x, -1>>, p2 |-> <<x, 1>>, opposite |-> TRUE],
                        [neighbor |-> 3, i1 |-> cell[3], i2 |-> cell[4],
                         p1 |-> <<21, 1>>, p2 |-> <<21, -1>>, opposite |-> TRUE] >>]

FieldIslands ==
    DetIslands \cup {ArmIsland(s, x) : s \in 0..7, x \in {9, 10}}
               \cup {BulgeIsland(s, x) : s \in 0..7, x \in {9, 10}}

\* the two ways the addresses of the ends of a part can be ordered
FieldAddressOrders == {<<1, 2, 3, 4>>, <<3, 4, 1, 2>>}

\* wide_tiny_changes of the thick part of the island
FieldChanges ==
    WideTinyChanges(ThickPartOf(island, address).ends, island.lines,
                    [i \in 0..(Len(island.lines) - 1) |-> <<>>])

\* input_index: the smaller source index of the two cells of part.start
FieldInputIndex ==
    Min(island.cell[ThickPartOf(island, address).start],
        island.cell[island.twin[ThickPartOf(island, address).start]])

InitField ==
    /\ island \in FieldIslands
    /\ address \in FieldAddressOrders
    /\ config \in {c \in DetConfigs : c.head_radius = 1 /\ c.thin_max_distance = 6
                                      /\ c.maximal_distance_from_outline = 1
                                      /\ c.thick_outline_max_distance = 4}
    /\ pc = "thick_field"
    /\ item = <<>>
    /\ observed = <<>>
    /\ supports = <<>>
    /\ first_output = <<>>
    /\ branch = "thick"
    /\ sampled = <<>>
    /\ count_iteration = 0
    /\ max_move = 0
    /\ sweeps = 0
    /\ first_small = 0
    /\ prev_position = <<>>
    /\ dup_fixed = {}
    /\ island_parts = <<>> /\ next_item = <<>> /\ neighbor_index = 0
    /\ process_items = <<>> /\ part_lengths = <<>>
    /\ LoadIdle

FieldUnchanged ==
    UNCHANGED <<island, config, supports, branch, sampled, count_iteration, max_move,
                sweeps, first_small, prev_position, dup_fixed, address, first_output,
                island_parts, next_item, neighbor_index, process_items, part_lengths,
                LoadVars>>

\* create_thick_field up to the do loop
FieldEnter ==
    /\ pc = "thick_field"
    /\ item' = [index |-> FieldInputIndex, points |-> <<>>, source_indices |-> <<>>,
                done |-> {}]
    /\ observed' = [input_index |-> FieldInputIndex, steps |-> 0, closed_by |-> "none"]
    /\ pc' = "insert_changes"
    /\ FieldUnchanged

\* if (!insert_changes(outline_index, points, done_indices, input_index)) break;
FieldInsertChanges ==
    /\ pc = "insert_changes"
    /\ observed.steps < MaxFieldSteps
    /\ LET r == insert_changes(FieldChanges, island.lines, observed.input_index, item)
       IN  /\ item' = r.st
           /\ pc' = IF r.result THEN "inser_point_b" ELSE "field_done"
           /\ observed' = [observed EXCEPT !.steps = @ + 1,
                                           !.closed_by = IF r.result THEN @ ELSE "change"]
    /\ FieldUnchanged

\* inser_point_b(outline_index, points, done_indices); while (outline_index != input_index)
FieldInserPointB ==
    /\ pc = "inser_point_b"
    /\ LET st == inser_point_b(island.lines, item)
       IN  /\ item' = st
           /\ pc' = IF st.index # observed.input_index THEN "insert_changes"
                    ELSE "field_done"
           /\ observed' = [observed EXCEPT !.closed_by =
                              IF st.index # observed.input_index THEN @ ELSE "line"]
    /\ FieldUnchanged

NextField ==
    \/ FieldEnter
    \/ FieldInsertChanges
    \/ FieldInserPointB

SpecField == InitField /\ [][NextField]_vars

\* the source lines of the border edges collected so far, changes left out
WalkedLines == SelectSeq(item.source_indices, LAMBDA i : i # Len(island.lines))

\* no line is walked twice
FieldWalkOnce ==
    \A i, j \in 1..Len(WalkedLines) : i # j => WalkedLines[i] # WalkedLines[j]

\* the border is closed on the line the walk started on: its first point lies on that
\* line, and its last point too or the last point is left by a change that comes to
\* the first point
FieldClosedOnInput ==
    /\ Len(item.points) >= 3
    /\ OnSegment(item.points[1], LineAt(island.lines, observed.input_index).a,
                 LineAt(island.lines, observed.input_index).b)
    /\ \/ OnSegment(item.points[Len(item.points)],
                    LineAt(island.lines, observed.input_index).a,
                    LineAt(island.lines, observed.input_index).b)
       \/ \E k \in 1..Len(FieldChanges[item.index]) :
             /\ FieldChanges[item.index][k].next_line_index = observed.input_index
             /\ FieldChanges[item.index][k].new_b = item.points[Len(item.points)]
             /\ FieldChanges[item.index][k].next_new_a = item.points[1]

\* C24: the border walk that starts on the line with the smaller source index of the
\* start edge comes to an end after at most one pass of its loop for every line, on
\* the line it started on, walks no line twice and collects at least three points
C24_FieldWalkCloses ==
    /\ pc \in {"insert_changes", "inser_point_b", "field_done"} =>
          /\ FieldWalkOnce
          /\ observed.steps <= Len(island.lines)
    /\ pc = "field_done" => FieldClosedOnInput

C24_Witness ==
    /\ pc = "field_done"
    /\ observed.closed_by = "change"
    /\ observed.input_index = FieldInputIndex
    /\ Len(FieldChanges[observed.input_index]) = 1
    /\ Len(item.points) >= 8
    /\ FieldWalkOnce /\ FieldClosedOnInput

\* ======================= SupportPointGenerator.cpp ============================
\* generate_support_points: the support points of all layers in one storage, and
\* for every layer part a NearPoints over the indices of that storage.
\*   island          : SupportPointGeneratorData data (layers and their parts)
\*   config          : SupportPointGeneratorConfig (support_curve, density_relative)
\*   supports        : LayerSupportPoints result, the shared storage
\*   process_items   : std::vector<NearPoints> prev_grids
\*   island_parts    : std::vector<NearPoints> grids
\*   item            : NearPoints of the part being processed (its tree nodes)
\*   count_iteration : layer_id
\*   sweeps          : position of the loop over layer.parts
\*   neighbor_index  : position of the inner loop (prev_parts, supports, samples)
\*   max_move        : maximal_radius

result == supports
prev_grids == process_items
grids == island_parts
near_points == item
layer_id == count_iteration
maximal_radius == max_move

\* smallest power of two that is not below n
RECURSIVE NodeCount(_, _)
NodeCount(n, size) == IF size >= n THEN size ELSE NodeCount(n, 2 * size)

\* KDTreeIndirect::build: the nodes hold every index once, the unused leaves hold
\* the maximal size_t
build(indices) ==
    IF indices = <<>> THEN <<>>
    ELSE Tuple([i \in 1..NodeCount(Len(indices), 1) |->
                   IF i <= Len(indices) THEN indices[i] ELSE SizeTMax])

\* NearPoints::get_indices: the nodes of the tree without the unused leaves
get_indices(m_tree, pts) == SelectSeq(m_tree, LAMBDA i : ~(i >= Len(pts)))

\* NearPoints::get_copy
get_copy(m_tree) == m_tree

\* NearPoints::add: [m_tree, pts] after the call
add(m_tree, pts, point) ==
    LET indices == get_indices(m_tree, pts)
        index == Len(pts)
    IN  [pts |-> Append(pts, point), m_tree |-> build(Append(indices, index))]

\* add called for every point of a sequence, in order
RECURSIVE add_all(_, _, _)
add_all(m_tree, pts, points) ==
    IF points = <<>> THEN [pts |-> pts, m_tree |-> m_tree]
    ELSE LET one == add(m_tree, pts, Head(points))
         IN  add_all(one.m_tree, one.pts, Tail(points))

\* ExPolygon::contains for the shapes of the model, boxes with their border
shape_contains(shape, p) ==
    /\ shape.min[1] <= p[1] /\ p[1] <= shape.max[1]
    /\ shape.min[2] <= p[2] /\ p[2] <= shape.max[2]

\* NearPoints::remove_out_of: the tree after the call
remove_out_of(m_tree, pts, shapes) ==
    LET indices == get_indices(m_tree, pts)
        kept == SelectSeq(indices, LAMBDA point_index :
                    \E s \in 1..Len(shapes) :
                        shape_contains(shapes[s], pts[point_index + 1].position_on_layer))
    IN  IF kept = indices THEN m_tree ELSE build(kept)

\* the indices of merge with the duplicates of the diamond case left in
merge_without_unique(m_tree, other_tree, pts) ==
    build(SortIndices(get_indices(m_tree, pts) \o get_indices(other_tree, pts)))

\* NearPoints::merge: the tree after the call
merge(m_tree, other_tree, pts) ==
    build(UniqueIndices(SortIndices(get_indices(m_tree, pts) \o get_indices(other_tree, pts))))

squaredNorm(dp) == dp[1] * dp[1] + dp[2] * dp[2]

\* find_nearby_points of KDTreeIndirect: the indices of the tree whose point is
\* not farther than radius from pos
find_nearby_points(m_tree, pts, pos, radius) ==
    SelectSeq(m_tree, LAMBDA i :
        /\ i < Len(pts)
        /\ squaredNorm(<<pts[i + 1].position_on_layer[1] - pos[1],
                         pts[i + 1].position_on_layer[2] - pos[2]>>) <= radius * radius)

\* is_supported with a closed circle
is_supported_closed(support_point, p) ==
    LET r == support_point.current_radius
        dp == <<support_point.position_on_layer[1] - p[1],
                support_point.position_on_layer[2] - p[2]>>
    IN  squaredNorm(dp) <= r * r

\* the lambda is_supported of support_part_overhangs
is_supported(support_point, p) ==
    LET r == support_point.current_radius
        dp == <<support_point.position_on_layer[1] - p[1],
                support_point.position_on_layer[2] - p[2]>>
    IN  IF Abs(dp[1]) > r THEN FALSE
        ELSE IF Abs(dp[2]) > r THEN FALSE
        ELSE squaredNorm(dp) < r * r

\* NearPoints::exist_true_in_radius with fnc = is_supported
exist_true_in_radius(m_tree, pts, pos, radius) ==
    LET point_indices == find_nearby_points(m_tree, pts, pos, radius)
    IN  \E k \in 1..Len(point_indices) : is_supported(pts[point_indices[k] + 1], pos)

\* the LayerSupportPoint that support_island, support_peninsulas and
\* support_part_overhangs create at p
NewSupport(p, part_z, cfg) ==
    [position_on_layer |-> p, z |-> part_z, radius_curve_index |-> 0,
     current_radius |-> cfg.support_curve[1].x]

\* set_radius of prepare_supports_for_layer; density_relative in percent
set_radius(support, radius, cfg) ==
    [support EXCEPT !.current_radius =
        IF cfg.density_relative # 100 THEN (radius * 100) \div cfg.density_relative
        ELSE radius]

\* the while loop of prepare_supports_for_layer over the segments of the curve
RECURSIVE CurveSegment(_, _, _)
CurveSegment(curve, index, diff_z) ==
    IF (index + 1) < Len(curve) /\ diff_z > curve[index + 2].y
    THEN CurveSegment(curve, index + 1, diff_z)
    ELSE index

\* prepare_supports_for_layer for one support
prepare_support(support, layer_z, cfg) ==
    LET curve == cfg.support_curve
        index0 == support.radius_curve_index
        diff_z == layer_z - support.z
        index == CurveSegment(curve, index0, diff_z)
        moved == [support EXCEPT !.radius_curve_index = index]
        a == curve[index + 1]
        b == curve[index + 2]
    IN  IF index0 + 1 >= Len(curve) THEN support
        ELSE IF index + 1 >= Len(curve) THEN set_radius(moved, curve[Len(curve)].x, cfg)
        ELSE set_radius(moved, a.x + ((diff_z - a.y) * (b.x - a.x)) \div (b.y - a.y), cfg)

prepare_supports_for_layer(pts, layer_z, cfg) ==
    Tuple([i \in 1..Len(pts) |-> prepare_support(pts[i], layer_z, cfg)])

\* ---- the layers given to generate_support_points ----

Box2(x0, x1, y0, y1) == [min |-> <<x0, y0>>, max |-> <<x1, y1>>]
Box(x0, x1) == Box2(x0, x1, -2, 2)

\* offset_ex(*part.shape, config.removing_delta) for a box
offset_ex(shape, delta) ==
    [min |-> <<shape.min[1] - delta, shape.min[2] - delta>>,
     max |-> <<shape.max[1] + delta, shape.max[2] + delta>>]

\* a part that has no part below: supported as an island
GenIslandPart(shape, next, island_supports) ==
    [shape |-> shape, prev_parts |-> <<>>, next_parts |-> next, samples |-> <<>>,
     peninsulas |-> <<>>, island_supports |-> island_supports]

\* a part linked to parts of the layer below (indices inside that layer)
GenLinkedPart(shape, prev, next, samples, peninsulas) ==
    [shape |-> shape, prev_parts |-> prev, next_parts |-> next, samples |-> samples,
     peninsulas |-> peninsulas, island_supports |-> <<>>]

GenLayerOf(z, parts) == [print_z |-> z, parts |-> parts]

SampleChoices ==
    { <<>>,
      << <<2, 0>> >>,
      << <<3, 0>>, <<4, 0>> >>,
      << <<8, 0>>, <<8, 2>>, <<9, 0>> >> }

\* one part, two parts above it, one part above both
DiamondData(sB, sC, sD) ==
    [layers |-> <<
        GenLayerOf(0, << GenIslandPart(Box(-1, 9), <<0, 1>>,
                                       << <<0, 0>>, <<4, 0>>, <<6, 0>> >>) >>),
        GenLayerOf(1, << GenLinkedPart(Box(-1, 3), <<0>>, <<0>>, sB, <<>>),
                         GenLinkedPart(Box(4, 9), <<0>>, <<0>>, sC, <<>>) >>),
        GenLayerOf(2, << GenLinkedPart(Box(-1, 9), <<0, 1>>, <<>>, sD, <<>>) >>) >>]

\* two islands that join, then a part with a peninsula next to a new island
JoinData(sB, sC) ==
    [layers |-> <<
        GenLayerOf(0, << GenIslandPart(Box(0, 2), <<0>>, << <<1, 0>> >>),
                         GenIslandPart(Box(5, 8), <<0>>, << <<6, 1>>, <<7, -1>> >>) >>),
        GenLayerOf(1, << GenLinkedPart(Box(0, 8), <<0, 1>>, <<0>>, sB, <<>>) >>),
        GenLayerOf(3, << GenLinkedPart(Box(2, 10), <<0>>, <<>>, sC, << << <<10, 0>> >> >>),
                         GenIslandPart(Box(20, 22), <<>>, <<>>) >>) >>]

\* one part under three parts, two of them under the same part of the top layer
FanData(sB, sD) ==
    [layers |-> <<
        GenLayerOf(0, << GenIslandPart(Box(0, 9), <<0, 1, 2>>, << <<1, 0>>, <<4, 0>>, <<8, 0>> >>) >>),
        GenLayerOf(1, << GenLinkedPart(Box(0, 3), <<0>>, <<0, 1>>, sB, <<>>),
                         GenLinkedPart(Box(4, 6), <<0>>, <<0>>, <<>>, <<>>),
                         GenLinkedPart(Box(7, 9), <<0>>, <<>>, <<>>, <<>>) >>),
        GenLayerOf(2, << GenLinkedPart(Box2(0, 6, 0, 2), <<0, 1>>, <<>>, sD, <<>>),
                         GenLinkedPart(Box2(0, 1, -2, -1), <<0>>, <<>>,
                                       << <<0, -2>> >>, <<>>) >>) >>]

GenDatas ==
    {DiamondData(sB, sC, sD) : sB \in SampleChoices, sC \in SampleChoices,
                               sD \in {<<>>, << <<3, 0>>, <<4, 0>> >>}}
    \cup {JoinData(sB, sC) : sB \in SampleChoices, sC \in SampleChoices}
    \cup {FanData(sB, sD) : sB \in SampleChoices, sD \in SampleChoices}

\* support_curve: radius x of the supported area at the height y above the support
GenCurves ==
    { << [x |-> 5, y |-> 0], [x |-> 5, y |-> 1] >>,
      << [x |-> 2, y |-> 0], [x |-> 3, y |-> 1], [x |-> 4, y |-> 3] >>,
      << [x |-> 1, y |-> 0], [x |-> 5, y |-> 2] >>,
      << [x |-> 0, y |-> 0], [x |-> 2, y |-> 2] >> }

GenConfigs ==
    [support_curve : GenCurves, density_relative : {100, 50}, removing_delta : {0, 1}]

InitGen ==
    /\ island \in GenDatas
    /\ config \in GenConfigs
    /\ pc = "gen_start"
    /\ supports = <<>>
    /\ item = <<>>
    /\ next_item = <<>>
    /\ process_items = <<>>
    /\ observed = [op |-> "none"]
    /\ island_parts = <<>> /\ neighbor_index = 0 /\ part_lengths = <<>>
    /\ branch = "none"
    /\ sampled = <<>>
    /\ count_iteration = 0
    /\ max_move = 0
    /\ sweeps = 0
    /\ first_small = 0
    /\ prev_position = <<>>
    /\ dup_fixed = {}
    /\ address = <<>>
    /\ first_output = <<>>
    /\ LoadIdle

GenUnchanged ==
    UNCHANGED <<island, config, branch, sampled, first_small, prev_position, dup_fixed,
                address, first_output, next_item, part_lengths, LoadVars>>

GenLayers == island.layers
GenLayer == GenLayers[layer_id + 1]
GenPart == GenLayer.parts[sweeps + 1]

\* generate_support_points up to the loop over the layers
GenEnter ==
    /\ pc = "gen_start"
    /\ max_move' = config.support_curve[Len(config.support_curve)].x
    /\ supports' = <<>>
    /\ process_items' = <<>>
    /\ count_iteration' = 0
    /\ pc' = "gen_layer"
    /\ observed' = [op |-> "enter"]
    /\ UNCHANGED <<item, island_parts, sweeps, neighbor_index>>
    /\ GenUnchanged

\* head of the loop over the layers: prepare_supports_for_layer, empty grids
GenPrepareLayer ==
    /\ pc = "gen_layer"
    /\ layer_id < Len(GenLayers)
    /\ supports' = prepare_supports_for_layer(result, GenLayer.print_z, config)
    /\ island_parts' = <<>>
    /\ sweeps' = 0
    /\ pc' = "gen_part"
    /\ observed' = [op |-> "prepare_supports_for_layer"]
    /\ UNCHANGED <<item, process_items, count_iteration, neighbor_index, max_move>>
    /\ GenUnchanged

\* a part without prev_parts: a new grid for the island
GenIsland ==
    /\ pc = "gen_part"
    /\ sweeps < Len(GenLayer.parts)
    /\ GenPart.prev_parts = <<>>
    /\ island_parts' = Append(grids, <<>>)
    /\ neighbor_index' = 0
    /\ pc' = "gen_island"
    /\ observed' = [op |-> "NearPoints"]
    /\ UNCHANGED <<item, supports, process_items, count_iteration, sweeps, max_move>>
    /\ GenUnchanged

\* support_island: add of one sample of the island to grids.back()
GenIslandAdd ==
    /\ pc = "gen_island"
    /\ neighbor_index < Len(GenPart.island_supports)
    /\ LET added == add(grids[Len(grids)], result,
                        NewSupport(GenPart.island_supports[neighbor_index + 1],
                                   GenLayer.print_z, config))
       IN  /\ supports' = added.pts
           /\ island_parts' = [grids EXCEPT ![Len(grids)] = added.m_tree]
    /\ neighbor_index' = neighbor_index + 1
    /\ observed' = [op |-> "add"]
    /\ UNCHANGED <<item, process_items, count_iteration, sweeps, max_move, pc>>
    /\ GenUnchanged

\* support_island returns, continue with the next part
GenIslandDone ==
    /\ pc = "gen_island"
    /\ neighbor_index >= Len(GenPart.island_supports)
    /\ sweeps' = sweeps + 1
    /\ pc' = "gen_part"
    /\ observed' = [op |-> "continue"]
    /\ UNCHANGED <<item, supports, process_items, island_parts, count_iteration,
                   neighbor_index, max_move>>
    /\ GenUnchanged

\* create_near_points, the grid of the first previous part: moved when this part is
\* the only one above it, otherwise copied
GenCreateNearPoints ==
    /\ pc = "gen_part"
    /\ sweeps < Len(GenLayer.parts)
    /\ GenPart.prev_parts # <<>>
    /\ LET index_of_prev_part == GenPart.prev_parts[1]
           prev_part == GenLayers[layer_id].parts[index_of_prev_part + 1]
       IN  IF Len(prev_part.next_parts) = 1
           THEN /\ item' = prev_grids[index_of_prev_part + 1]
                /\ process_items' = [prev_grids EXCEPT ![index_of_prev_part + 1] = <<>>]
                /\ observed' = [op |-> "move"]
           ELSE /\ item' = get_copy(prev_grids[index_of_prev_part + 1])
                /\ process_items' = prev_grids
                /\ observed' = [op |-> "get_copy"]
    /\ neighbor_index' = 1
    /\ pc' = "gen_merge"
    /\ UNCHANGED <<supports, island_parts, count_iteration, sweeps, max_move>>
    /\ GenUnchanged

\* create_near_points, one pass of the loop over the other previous parts
GenMerge ==
    /\ pc = "gen_merge"
    /\ neighbor_index < Len(GenPart.prev_parts)
    /\ LET index_of_prev_part == GenPart.prev_parts[neighbor_index + 1]
           prev_part == GenLayers[layer_id].parts[index_of_prev_part + 1]
       IN  IF Len(prev_part.next_parts) = 1
           THEN /\ item' = merge(near_points, prev_grids[index_of_prev_part + 1], result)
                /\ observed' = [op |-> "merge", copied |-> FALSE,
                                first |-> get_indices(near_points, result),
                                second |-> get_indices(prev_grids[index_of_prev_part + 1],
                                                       result)]
           ELSE /\ item' = merge(near_points,
                                 get_copy(prev_grids[index_of_prev_part + 1]), result)
                /\ observed' = [op |-> "merge", copied |-> TRUE,
                                first |-> get_indices(near_points, result),
                                second |-> get_indices(prev_grids[index_of_prev_part + 1],
                                                       result)]
    /\ neighbor_index' = neighbor_index + 1
    /\ UNCHANGED <<supports, process_items, island_parts, count_iteration, sweeps,
                   max_move, pc>>
    /\ GenUnchanged

\* remove_supports_out_of_part on the grid that create_near_points returned
GenRemoveOutOfPart ==
    /\ pc = "gen_merge"
    /\ neighbor_index >= Len(GenPart.prev_parts)
    /\ item' = remove_out_of(near_points, result,
                             <<offset_ex(GenPart.shape, config.removing_delta)>>)
    /\ neighbor_index' = 0
    /\ pc' = IF GenPart.peninsulas # <<>> THEN "gen_peninsulas" ELSE "gen_overhangs"
    /\ observed' = [op |-> "remove_out_of", before |-> get_indices(near_points, result)]
    /\ UNCHANGED <<supports, process_items, island_parts, count_iteration, sweeps,
                   max_move>>
    /\ GenUnchanged

\* support_peninsulas, one peninsula: add of every support of the peninsula
GenSupportPeninsula ==
    /\ pc = "gen_peninsulas"
    /\ LET peninsula_supports == GenPart.peninsulas[neighbor_index + 1]
           points == Tuple([i \in 1..Len(peninsula_supports) |->
                               NewSupport(peninsula_supports[i], GenLayer.print_z, config)])
           added == add_all(near_points, result, points)
       IN  /\ supports' = added.pts
           /\ item' = added.m_tree
    /\ neighbor_index' = IF neighbor_index + 1 < Len(GenPart.peninsulas)
                         THEN neighbor_index + 1 ELSE 0
    /\ pc' = IF neighbor_index + 1 < Len(GenPart.peninsulas)
             THEN "gen_peninsulas" ELSE "gen_overhangs"
    /\ observed' = [op |-> "add"]
    /\ UNCHANGED <<process_items, island_parts, count_iteration, sweeps, max_move>>
    /\ GenUnchanged

\* support_part_overhangs, one sample of part.samples
GenSupportOverhang ==
    /\ pc = "gen_overhangs"
    /\ neighbor_index < Len(GenPart.samples)
    /\ LET p == GenPart.samples[neighbor_index + 1]
           exist == exist_true_in_radius(near_points, result, p, maximal_radius)
           added == add(near_points, result, NewSupport(p, GenLayer.print_z, config))
       IN  /\ supports' = IF exist THEN result ELSE added.pts
           /\ item' = IF exist THEN near_points ELSE added.m_tree
           /\ observed' = [op |-> "sample", p |-> p, added |-> ~exist,
                           pts |-> result, indices |-> get_indices(near_points, result)]
    /\ neighbor_index' = neighbor_index + 1
    /\ UNCHANGED <<process_items, island_parts, count_iteration, sweeps, max_move, pc>>
    /\ GenUnchanged

\* support_part_overhangs returns: grids.push_back(std::move(near_points))
GenPushGrid ==
    /\ pc = "gen_overhangs"
    /\ neighbor_index >= Len(GenPart.samples)
    /\ island_parts' = Append(grids, near_points)
    /\ item' = <<>>
    /\ sweeps' = sweeps + 1
    /\ pc' = "gen_part"
    /\ observed' = [op |-> "push_back"]
    /\ UNCHANGED <<supports, process_items, count_iteration, neighbor_index, max_move>>
    /\ GenUnchanged

\* end of the loop over the parts: prev_grids = std::move(grids)
GenNextLayer ==
    /\ pc = "gen_part"
    /\ sweeps >= Len(GenLayer.parts)
    /\ process_items' = grids
    /\ island_parts' = <<>>
    /\ count_iteration' = layer_id + 1
    /\ pc' = "gen_layer"
    /\ observed' = [op |-> "next_layer"]
    /\ UNCHANGED <<item, supports, sweeps, neighbor_index, max_move>>
    /\ GenUnchanged

\* end of the loop over the layers: return result
GenReturn ==
    /\ pc = "gen_layer"
    /\ layer_id >= Len(GenLayers)
    /\ pc' = "gen_done"
    /\ observed' = [op |-> "return"]
    /\ UNCHANGED <<item, supports, process_items, island_parts, count_iteration, sweeps,
                   neighbor_index, max_move>>
    /\ GenUnchanged

NextGen ==
    \/ GenEnter
    \/ GenPrepareLayer
    \/ GenIsland
    \/ GenIslandAdd
    \/ GenIslandDone
    \/ GenCreateNearPoints
    \/ GenMerge
    \/ GenRemoveOutOfPart
    \/ GenSupportPeninsula
    \/ GenSupportOverhang
    \/ GenPushGrid
    \/ GenNextLayer
    \/ GenReturn

SpecGen == InitGen /\ [][NextGen]_vars

\* squared distance of two points of a layer
GenDistance2(p, q) == (p[1] - q[1]) * (p[1] - q[1]) + (p[2] - q[2]) * (p[2] - q[2])

\* support_part_overhangs has gone through all samples of the part
OverhangsProcessed == pc = "gen_overhangs" /\ neighbor_index >= Len(GenPart.samples)

\* C26: when the radii are positive, after support_part_overhangs has processed a
\* part every sample p of the part has a support s among the indices of the
\* NearPoints of the part with distance(p, s.position_on_layer) < s.current_radius;
\* and a support is added at the sample p exactly when none of the supports of the
\* NearPoints found within maximal_radius of p satisfied this when p was examined.
C26_SamplesSupported ==
    /\ (OverhangsProcessed /\ config.support_curve[1].x > 0) =>
          \A k \in 1..Len(GenPart.samples) :
              \E n \in 1..Len(near_points) :
                  /\ near_points[n] < Len(result)
                  /\ GenDistance2(GenPart.samples[k],
                                  result[near_points[n] + 1].position_on_layer)
                        < result[near_points[n] + 1].current_radius
                            * result[near_points[n] + 1].current_radius
    /\ (pc = "gen_overhangs" /\ observed.op = "sample") =>
          /\ observed.added <=>
                ~ \E n \in 1..Len(observed.indices) :
                      LET s == observed.pts[observed.indices[n] + 1]
                      IN  /\ GenDistance2(observed.p, s.position_on_layer)
                                <= maximal_radius * maximal_radius
                          /\ GenDistance2(observed.p, s.position_on_layer)
                                < s.current_radius * s.current_radius
          /\ observed.added =>
                /\ Len(result) = Len(observed.pts) + 1
                /\ result[Len(result)].position_on_layer = observed.p
          /\ ~observed.added => result = observed.pts

\* a part whose samples were supported in both ways: one by a support of a lower
\* layer, one by a support added for an earlier sample of the same part
C26_Witness ==
    /\ OverhangsProcessed
    /\ config.support_curve[1].x > 0
    /\ Len(GenPart.samples) >= 2
    /\ observed.op = "sample" /\ ~observed.added
    /\ \E n \in 1..Len(result) :
          /\ result[n].z = GenLayer.print_z
          /\ GenDistance2(observed.p, result[n].position_on_layer)
                < result[n].current_radius * result[n].current_radius
    /\ \E n \in 1..Len(near_points) :
          /\ near_points[n] < Len(result)
          /\ result[near_points[n] + 1].z < GenLayer.print_z

\* the indices held by the nodes of a tree, the unused leaves left out
IndicesOf(m_tree) == SelectSeq(m_tree, LAMBDA i : i # SizeTMax)

\* every index of the tree is an index of the storage and is held once
IndicesValid(m_tree, pts) ==
    /\ \A n \in 1..Len(IndicesOf(m_tree)) : IndicesOf(m_tree)[n] < Len(pts)
    /\ \A n, o \in 1..Len(IndicesOf(m_tree)) :
          IndicesOf(m_tree)[n] = IndicesOf(m_tree)[o] => n = o

\* the NearPoints that exist in generate_support_points: the one of the part being
\* processed, the grids of the layer and the grids of the previous layer
AllIndicesValid ==
    /\ IndicesValid(near_points, result)
    /\ \A g \in 1..Len(grids) : IndicesValid(grids[g], result)
    /\ \A g \in 1..Len(prev_grids) : IndicesValid(prev_grids[g], result)

\* a step appends to the storage or leaves its supports where they are
StorageAppendOnly ==
    /\ Len(result') >= Len(result)
    /\ \A i \in 1..Len(result) :
          /\ result'[i].position_on_layer = result[i].position_on_layer
          /\ result'[i].z = result[i].z

\* C29: in generate_support_points the storage of the supports is append-only
\* (no support is removed or moved to another index), and after every operation
\* of a NearPoints (add, remove_out_of, merge, get_copy) every index it holds is
\* below the size of the storage and is held once, also after the merge of the
\* grids of previous parts that share supports (diamond case).
C29_IndicesStayValid == []AllIndicesValid /\ [][StorageAppendOnly]_vars

\* a merge of two grids that shared a support has been done, after every other
\* operation was used and the storage had grown across layers
C29_Witness ==
    /\ pc = "gen_merge"
    /\ observed.op = "merge"
    /\ \E n \in 1..Len(observed.first) : \E o \in 1..Len(observed.second) :
          observed.first[n] = observed.second[o]
    /\ Len(IndicesOf(near_points)) < Len(observed.first) + Len(observed.second)
    /\ Len(IndicesOf(near_points)) < Len(result)
    /\ \E n \in 1..Len(result) : result[n].z > 0

\* ---- prepare_generator_data: the parallel linking of the parts of the layers ----
\*   island        : the slices, for every layer the shapes of its islands
\*   island_parts  : result.layers, for every layer its LayerParts
\*   process_items : for every task of the second for_each (one for every layer_id
\*                   from 1) the positions it_above and it_below of its loops
\*   observed      : the writes made so far, with the task that made each

\* the shapes are sets of unit cells <<x, y>>; the cell covers [x, x+1] x [y, y+1]
LinkCells == {<<x, y>> : x \in 0..2, y \in 0..2}

\* get_extents(island.contour): the bounding box of a shape
get_extents(shape) ==
    [min |-> <<CHOOSE x \in 0..3 : (\E c \in shape : c[1] = x) /\ \A c \in shape : c[1] >= x,
               CHOOSE y \in 0..3 : (\E c \in shape : c[2] = y) /\ \A c \in shape : c[2] >= y>>,
     max |-> <<CHOOSE x \in 0..3 : (\E c \in shape : c[1] + 1 = x) /\ \A c \in shape : c[1] + 1 <= x,
               CHOOSE y \in 0..3 : (\E c \in shape : c[2] + 1 = y) /\ \A c \in shape : c[2] + 1 <= y>>]

\* BoundingBox::overlap: the boxes share at least a point of their borders
overlap(a, b) ==
    ~ \/ a.max[1] < b.min[1] \/ a.min[1] > b.max[1]
      \/ a.max[2] < b.min[2] \/ a.min[2] > b.max[2]

\* intersection(*it_above->shape, *it_below->shape)
intersection(above, below) == above \cap below

\* the parts are linked although only their extents overlap
extents_overlap(part_above, part_below) ==
    overlap(part_above.shape_extent, part_below.shape_extent)

\* the two tests of the inner loop that decide whether the parts are linked
link_parts(part_above, part_below) ==
    IF ~overlap(part_above.shape_extent, part_below.shape_extent) THEN FALSE
    ELSE IF intersection(part_above.shape, part_below.shape) = {} THEN FALSE
    ELSE TRUE

\* the cells of a set in the order of std::sort of Points
RECURSIVE SortedCells(_)
SortedCells(cells) ==
    IF cells = {} THEN <<>>
    ELSE LET first == CHOOSE c \in cells : \A o \in cells :
                          c[1] < o[1] \/ (c[1] = o[1] /\ c[2] <= o[2])
         IN  <<first>> \o SortedCells(cells \ {first})

\* diff_ex(shape, prev_polygons) of sample_overhangs: what of the part lies over
\* none of the linked parts below; the samples are taken from it
overhangs(part, parts_below) ==
    SortedCells({c \in part.shape :
                    \A k \in 1..Len(part.prev_parts) :
                        c \notin parts_below[part.prev_parts[k] + 1].shape})

LinkLayerChoices ==
    { <<>>,
      << {<<0, 0>>, <<1, 0>>, <<2, 0>>} >>,
      << {<<0, 0>>}, {<<2, 0>>} >>,
      << {<<0, 0>>, <<0, 1>>, <<0, 2>>, <<1, 2>>, <<2, 2>>}, {<<2, 0>>} >>,
      << {<<2, 0>>, <<2, 1>>}, {<<0, 1>>, <<0, 2>>} >> }

LinkLayerCount == 3

LinkSlices == [1..LinkLayerCount -> LinkLayerChoices]

InitLink ==
    /\ island \in [slices : LinkSlices]
    /\ config = <<>>
    /\ pc = "link_start"
    /\ supports = <<>>
    /\ item = <<>>
    /\ next_item = <<>>
    /\ process_items = <<>>
    /\ observed = [writes |-> {}, concurrent |-> FALSE]
    /\ island_parts = <<>> /\ neighbor_index = 0 /\ part_lengths = <<>>
    /\ branch = "none"
    /\ sampled = <<>>
    /\ count_iteration = 0
    /\ max_move = 0
    /\ sweeps = 0
    /\ first_small = 0
    /\ prev_position = <<>>
    /\ dup_fixed = {}
    /\ address = <<>>
    /\ first_output = <<>>
    /\ LoadIdle

LinkUnchanged ==
    UNCHANGED <<island, config, supports, item, next_item, neighbor_index, part_lengths,
                branch, sampled, count_iteration, max_move, sweeps, first_small,
                prev_position, dup_fixed, address, first_output, LoadVars>>

\* the LayerPart pushed for an island by the first for_each
NewLayerPart(shape) ==
    [shape |-> shape, shape_extent |-> get_extents(shape),
     prev_parts |-> <<>>, next_parts |-> <<>>, samples |-> <<>>]

\* prepare_generator_data up to the linking: the layers are allocated and the first
\* for_each has filled the parts of every layer; the tasks of the second for_each,
\* one for every layer_id from 1, are ready to run
LinkPrepareLayers ==
    /\ pc = "link_start"
    /\ island_parts' = Tuple([l \in 1..Len(island.slices) |->
                          Tuple([i \in 1..Len(island.slices[l]) |->
                                    NewLayerPart(island.slices[l][i])])])
    /\ process_items' = Tuple([t \in 1..(Len(island.slices) - 1) |->
                                  [it_above |-> 0, it_below |-> 0]])
    /\ pc' = "link_tasks"
    /\ UNCHANGED observed
    /\ LinkUnchanged

\* layers[layer_id].parts, layer_id counted from 0 as in the code
LinkParts(task_layer_id) == island_parts[task_layer_id + 1]

LinkTask(task_layer_id) == process_items[task_layer_id]

\* the task has left its loop over parts_above
LinkTaskDone(task_layer_id) == LinkTask(task_layer_id).it_above >= Len(LinkParts(task_layer_id))

\* the task has made a step and has not left its loop
LinkTaskRunning(task_layer_id) ==
    /\ ~LinkTaskDone(task_layer_id)
    /\ LinkTask(task_layer_id).it_above + LinkTask(task_layer_id).it_below > 0

\* another task is in the middle of its loops
LinkOtherRunning(task_layer_id) ==
    \E t \in 1..Len(process_items) : t # task_layer_id /\ LinkTaskRunning(t)

\* task layer_id, one pass of the inner loop: the tests, then the two emplace_back
LinkPair(task_layer_id) ==
    /\ pc = "link_tasks"
    /\ ~LinkTaskDone(task_layer_id)
    /\ LinkTask(task_layer_id).it_below < Len(LinkParts(task_layer_id - 1))
    /\ LET it_above == LinkTask(task_layer_id).it_above
           it_below == LinkTask(task_layer_id).it_below
           part_above == LinkParts(task_layer_id)[it_above + 1]
           part_below == LinkParts(task_layer_id - 1)[it_below + 1]
       IN  IF link_parts(part_above, part_below)
           THEN /\ island_parts' =
                      [island_parts EXCEPT
                          ![task_layer_id + 1][it_above + 1].prev_parts = Append(@, it_below),
                          ![task_layer_id][it_below + 1].next_parts = Append(@, it_above)]
                /\ observed' =
                      [writes |-> observed.writes \cup
                          {[task |-> task_layer_id, layer |-> task_layer_id, part |-> it_above,
                            field |-> "prev_parts"],
                           [task |-> task_layer_id, layer |-> task_layer_id - 1, part |-> it_below,
                            field |-> "next_parts"]},
                       concurrent |-> observed.concurrent \/ LinkOtherRunning(task_layer_id)]
           ELSE /\ island_parts' = island_parts
                /\ observed' = [observed EXCEPT
                                   !.concurrent = @ \/ LinkOtherRunning(task_layer_id)]
    /\ process_items' = [process_items EXCEPT ![task_layer_id].it_below = @ + 1]
    /\ UNCHANGED pc
    /\ LinkUnchanged

\* task layer_id, the end of a pass of the outer loop: the samples of a linked part
LinkSample(task_layer_id) ==
    /\ pc = "link_tasks"
    /\ ~LinkTaskDone(task_layer_id)
    /\ LinkTask(task_layer_id).it_below >= Len(LinkParts(task_layer_id - 1))
    /\ LET it_above == LinkTask(task_layer_id).it_above
           part_above == LinkParts(task_layer_id)[it_above + 1]
       IN  IF part_above.prev_parts = <<>>
           THEN /\ island_parts' = island_parts
                /\ observed' = [observed EXCEPT
                                   !.concurrent = @ \/ LinkOtherRunning(task_layer_id)]
           ELSE /\ island_parts' =
                      [island_parts EXCEPT ![task_layer_id + 1][it_above + 1].samples =
                          overhangs(part_above, LinkParts(task_layer_id - 1))]
                /\ observed' =
                      [writes |-> observed.writes \cup
                          {[task |-> task_layer_id, layer |-> task_layer_id, part |-> it_above,
                            field |-> "samples"]},
                       concurrent |-> observed.concurrent \/ LinkOtherRunning(task_layer_id)]
    /\ process_items' = [process_items EXCEPT ![task_layer_id].it_above = @ + 1,
                                              ![task_layer_id].it_below = 0]
    /\ UNCHANGED pc
    /\ LinkUnchanged

\* the second for_each returns when all its tasks have finished
LinkJoin ==
    /\ pc = "link_tasks"
    /\ \A t \in 1..Len(process_items) : LinkTaskDone(t)
    /\ pc' = "link_done"
    /\ UNCHANGED <<island_parts, process_items, observed>>
    /\ LinkUnchanged

NextLink ==
    \/ LinkPrepareLayers
    \/ \E task_layer_id \in 1..(LinkLayerCount - 1) : LinkPair(task_layer_id)
    \/ \E task_layer_id \in 1..(LinkLayerCount - 1) : LinkSample(task_layer_id)
    \/ LinkJoin

SpecLink == InitLink /\ [][NextLink]_vars

\* no two tasks have written the same field of the same part
LinkWritesDisjoint ==
    \A w1, w2 \in observed.writes :
        (w1.layer = w2.layer /\ w1.part = w2.part /\ w1.field = w2.field)
            => w1.task = w2.task

\* task L writes prev_parts and samples of layer L and next_parts of layer L-1
LinkWritesOwn ==
    \A w \in observed.writes :
        \/ w.field \in {"prev_parts", "samples"} /\ w.layer = w.task
        \/ w.field = "next_parts" /\ w.layer = w.task - 1

LinkIn(links, index) == \E k \in 1..Len(links) : links[k] = index

\* the links of two layers next to each other mirror each other and the shapes
LinkSymmetric ==
    \A L \in 1..(Len(island_parts) - 1) :
        \A a \in 1..Len(island_parts[L + 1]) : \A b \in 1..Len(island_parts[L]) :
            /\ LinkIn(island_parts[L + 1][a].prev_parts, b - 1)
                  <=> LinkIn(island_parts[L][b].next_parts, a - 1)
            /\ LinkIn(island_parts[L + 1][a].prev_parts, b - 1)
                  <=> (island_parts[L + 1][a].shape \cap island_parts[L][b].shape # {})

\* C30: in the linking phase of prepare_generator_data, whatever the interleaving
\* of the tasks of the layers, no two tasks write the same field of the same part
\* (task L writes only prev_parts and samples of layer L and next_parts of layer
\* L-1), and when the phase is complete part B of layer L-1 is in A.prev_parts
\* exactly when part A of layer L is in B.next_parts, exactly when their shapes
\* intersect.
C30_LinkTasksDisjoint ==
    /\ pc \in {"link_tasks", "link_done"} => LinkWritesDisjoint /\ LinkWritesOwn
    /\ pc = "link_done" => LinkSymmetric

\* the phase is complete after the tasks ran interleaved; a part of a middle layer
\* got its prev_parts from one task and its next_parts from another, and two parts
\* whose extents overlap without the shapes intersecting were left unlinked
C30_Witness ==
    /\ pc = "link_done"
    /\ observed.concurrent
    /\ \E w1, w2 \in observed.writes :
          /\ w1.layer = w2.layer /\ w1.part = w2.part /\ w1.task # w2.task
          /\ w1.field = "prev_parts" /\ w2.field = "next_parts"
    /\ \E L \in 1..(Len(island_parts) - 1) :
          \E a \in 1..Len(island_parts[L + 1]) : \E b \in 1..Len(island_parts[L]) :
              /\ overlap(island_parts[L + 1][a].shape_extent, island_parts[L][b].shape_extent)
              /\ ~LinkIn(island_parts[L + 1][a].prev_parts, b - 1)

====
